---- MODULE Spec2Model ----
(***************************************************************************)
(* Tire-degradation estimator and pit-strategy decision logic of the F1    *)
(* pit-wall dashboard: the Kalman addon (kalman_addon.cpp), TireStrategy,  *)
(* PitStopAnalyzer and the dashboard's timer loop with its advisory        *)
(* (Mistral) callbacks.                                                    *)
(*                                                                         *)
(* Numbers.  IEEE doubles are modelled as fixed-point integers in units of *)
(* 1/S (S = 10000): 0.60 is 6000, 1.5 is 15000.  Products and quotients    *)
(* are rounded to the nearest unit.  NaN is a distinguished value.         *)
(* Ratios compared with a decimal literal (laps / maxLaps < 0.95) are      *)
(* compared exactly by cross-multiplication.                               *)
(***************************************************************************)
EXTENDS Integers, Sequences, FiniteSets, TLC

S == 10000
NaN == 999999999
undefined == "undefined"

isNaN(v) == v = NaN

RoundDiv(a, b) == IF b > 0 THEN (2 * a + b) \div (2 * b)
                           ELSE (2 * (0 - a) + (0 - b)) \div (2 * (0 - b))

Max(a, b) == IF a >= b THEN a ELSE b
Min(a, b) == IF a <= b THEN a ELSE b
Abs(a) == IF a >= 0 THEN a ELSE 0 - a

\* Math.round: nearest integer, halves upward.  v is in units of 1/d.
MathRound(v, d) == (2 * v + d) \div (2 * d)
\* Math.ceil of v / d, d > 0.
MathCeil(v, d) == 0 - ((0 - v) \div d)

(***************************************************************************)
(* TireStrategy (tire_strategy.js)                                         *)
(***************************************************************************)
Compounds == {"SOFT", "MEDIUM", "HARD", "WET", "INTERMEDIATE", "EXTREME_WET"}

\* getMaxLaps with the fallback limited to a missing key: maxLapsMap[compound] ?? 25.
getMaxLapsMutant(compound) ==
    CASE compound = "SOFT" -> 18
      [] compound = "MEDIUM" -> 28
      [] compound = "HARD" -> 40
      [] compound = "WET" -> 35
      [] compound = "INTERMEDIATE" -> 30
      [] compound = "EXTREME_WET" -> 25
      [] OTHER -> 25

\* maxLapsMap[compound] || 20
getMaxLaps(compound) ==
    CASE compound = "SOFT" -> 18
      [] compound = "MEDIUM" -> 28
      [] compound = "HARD" -> 40
      [] compound = "WET" -> 35
      [] compound = "INTERMEDIATE" -> 30
      [] compound = "EXTREME_WET" -> 25
      [] OTHER -> 20

\* The curve with the last two steps at 0.90 and 1.00 of the lifetime.
getDegradationCurveMultiplierMutant(currentLapArg, compound) ==
    LET maxLaps == getMaxLaps(compound) IN
    IF currentLapArg * 100 < maxLaps * 30 THEN 10
    ELSE IF currentLapArg * 100 < maxLaps * 60 THEN 13
    ELSE IF currentLapArg * 100 < maxLaps * 90 THEN 18
    ELSE IF currentLapArg * 100 < maxLaps * 100 THEN 25
    ELSE 40
\* Multiplier in tenths: 10 is 1.0, 40 is 4.0.
getDegradationCurveMultiplier(currentLapArg, compound) ==
    LET maxLaps == getMaxLaps(compound) IN
    IF currentLapArg * 100 < maxLaps * 30 THEN 10
    ELSE IF currentLapArg * 100 < maxLaps * 60 THEN 13
    ELSE IF currentLapArg * 100 < maxLaps * 85 THEN 18
    ELSE IF currentLapArg * 100 < maxLaps * 95 THEN 25
    ELSE 40

isPitStopMandatoryMutant(lapsCompleted, compound) ==
    LET maxLaps == getMaxLaps(compound) IN
    lapsCompleted * 100 >= maxLaps * 90

isPitStopMandatory(lapsCompleted, compound) ==
    LET maxLaps == getMaxLaps(compound) IN
    lapsCompleted * 100 >= maxLaps * 99

\* The status with a tire at exactly half of its lifetime still FRESH.
getTireWearStatusMutant(lapsCompleted, compound) ==
    LET maxLaps == getMaxLaps(compound) IN
    IF lapsCompleted * 100 <= maxLaps * 50 THEN "FRESH"
    ELSE IF lapsCompleted * 100 < maxLaps * 75 THEN "NORMAL"
    ELSE IF lapsCompleted * 100 < maxLaps * 85 THEN "WARNING"
    ELSE IF lapsCompleted * 100 < maxLaps * 95 THEN "CRITICAL"
    ELSE "MANDATORY"
getTireWearStatus(lapsCompleted, compound) ==
    LET maxLaps == getMaxLaps(compound) IN
    IF lapsCompleted * 100 < maxLaps * 50 THEN "FRESH"
    ELSE IF lapsCompleted * 100 < maxLaps * 75 THEN "NORMAL"
    ELSE IF lapsCompleted * 100 < maxLaps * 85 THEN "WARNING"
    ELSE IF lapsCompleted * 100 < maxLaps * 95 THEN "CRITICAL"
    ELSE "MANDATORY"

(***************************************************************************)
(* PitStopAnalyzer (pit_stop_analyzer.js)                                  *)
(***************************************************************************)
criticalCliffMutant == (80 * S) \div 100
criticalCliff == 7500
warningCliffMutant == (60 * S) \div 100
warningCliff == 6500

\* tireAge >= maxTireAge * 0.95
tireAgeCriticalMutant(tireAge, maxTireAge) == tireAge * 100 > maxTireAge * 100
tireAgeCritical(tireAge, maxTireAge) == tireAge * 100 >= maxTireAge * 95

\* The ladder with the usage test (lapsSinceLastPit > 20) placed above the
\* warning level.
determineOptimalPitWindowMutant(lapArg, currentCliffProb, lapsSincePitArg, tireAge, maxTireAge) ==
    IF tireAge * 100 >= maxTireAge * 95 THEN
        [recommendation |-> "PIT_IMMEDIATELY", urgency |-> "CRITICAL", lapsToGo |-> 0,
         reason |-> "Tire age at critical limit - immediate pit required"]
    ELSE IF currentCliffProb >= 7500 THEN
        [recommendation |-> "PIT_IMMEDIATELY", urgency |-> "CRITICAL", lapsToGo |-> 0,
         reason |-> "Tires at critical degradation level"]
    ELSE IF lapsSincePitArg > 20 /\ currentCliffProb > 5000 THEN
        [recommendation |-> "CONSIDER_PIT", urgency |-> "MEDIUM", lapsToGo |-> 2,
         reason |-> "Tires degrading, consider strategic pit"]
    ELSE IF currentCliffProb >= 6500 THEN
        [recommendation |-> "PIT_SOON", urgency |-> "HIGH", lapsToGo |-> 1,
         reason |-> "Tires approaching cliff, pit in next lap"]
    ELSE
        [recommendation |-> "STAY_OUT", urgency |-> "LOW", lapsToGo |-> 5,
         reason |-> "Tires fresh, extend current stint"]
\* The function validates nothing and has no failure path: every argument
\* goes straight into the comparisons.  The returned object has exactly
\* the four fields below.
determineOptimalPitWindow(lapArg, currentCliffProb, lapsSincePitArg, tireAge, maxTireAge) ==
    IF tireAgeCritical(tireAge, maxTireAge) THEN
        [recommendation |-> "PIT_IMMEDIATELY", urgency |-> "CRITICAL", lapsToGo |-> 0,
         reason |-> "Tire age at critical limit - immediate pit required"]
    ELSE IF currentCliffProb >= criticalCliff THEN
        [recommendation |-> "PIT_IMMEDIATELY", urgency |-> "CRITICAL", lapsToGo |-> 0,
         reason |-> "Tires at critical degradation level"]
    ELSE IF currentCliffProb >= warningCliff THEN
        [recommendation |-> "PIT_SOON", urgency |-> "HIGH", lapsToGo |-> 1,
         reason |-> "Tires approaching cliff, pit in next lap"]
    ELSE IF lapsSincePitArg > 20 /\ currentCliffProb > 5000 THEN
        [recommendation |-> "CONSIDER_PIT", urgency |-> "MEDIUM", lapsToGo |-> 2,
         reason |-> "Tires degrading, consider strategic pit"]
    ELSE
        [recommendation |-> "STAY_OUT", urgency |-> "LOW", lapsToGo |-> 5,
         reason |-> "Tires fresh, extend current stint"]

\* Tire-age branch of analyzePitStrategy: <<tireUrgency, shouldPit, reasons>>.
tireAgeUrgency(cliffProb, tireAge, maxTireAge) ==
    IF tireAge * 100 >= maxTireAge * 95 THEN
        [u |-> 10, pit |-> TRUE, reason |-> <<"CRITICAL: Tire at maximum age limit">>]
    ELSE IF tireAge * 100 >= maxTireAge * 85 THEN
        [u |-> 9, pit |-> TRUE, reason |-> <<"CRITICAL: Tire age 85%+ of lifespan">>]
    ELSE IF tireAge * 100 >= maxTireAge * 75 THEN
        [u |-> 7, pit |-> FALSE, reason |-> <<"HIGH: Tire approaching age limit">>]
    ELSE IF tireAge * 100 >= maxTireAge * 60 THEN
        [u |-> 4, pit |-> FALSE, reason |-> <<"MEDIUM: Tire halfway through lifespan">>]
    ELSE
        [u |-> MathRound(cliffProb * 5, S), pit |-> FALSE, reason |-> <<>>]

cliffUrgencyMutant(a, cliffProb) ==
    IF cliffProb > 7500 THEN
        [u |-> a.u + 10, pit |-> TRUE,
         reason |-> Append(a.reason, "CRITICAL: Tires at cliff")]
    ELSE IF cliffProb > 6500 THEN
        [u |-> a.u + 7, pit |-> a.pit,
         reason |-> Append(a.reason, "HIGH: Tires degrading rapidly")]
    ELSE IF cliffProb > 5000 THEN
        [u |-> a.u + 4, pit |-> a.pit,
         reason |-> Append(a.reason, "MEDIUM: Tires wearing")]
    ELSE a
\* Cliff-probability branch, applied to the result of the tire-age branch.
cliffUrgency(a, cliffProb) ==
    IF cliffProb > 7500 THEN
        [u |-> Max(a.u, 10), pit |-> TRUE,
         reason |-> Append(a.reason, "CRITICAL: Tires at cliff")]
    ELSE IF cliffProb > 6500 THEN
        [u |-> Max(a.u, 7), pit |-> a.pit,
         reason |-> Append(a.reason, "HIGH: Tires degrading rapidly")]
    ELSE IF cliffProb > 5000 THEN
        [u |-> Max(a.u, 4), pit |-> a.pit,
         reason |-> Append(a.reason, "MEDIUM: Tires wearing")]
    ELSE a

fuelUrgencyOfMutant(fuel, fuelPerLap) ==
    IF fuel < 5 * fuelPerLap THEN
        [u |-> 10, pit |-> TRUE, reason |-> <<"CRITICAL: Fuel critically low">>]
    ELSE IF fuel < 10 * fuelPerLap THEN
        [u |-> 6, pit |-> FALSE, reason |-> <<"HIGH: Must pit for fuel soon">>]
    ELSE
        [u |-> 1, pit |-> FALSE, reason |-> <<>>]
\* Fuel branch: fuel and fuelPerLap in units of 1/S kg, fuelPerLap > 0.
fuelUrgencyOf(fuel, fuelPerLap) ==
    LET lapsRemaining == MathCeil(fuel, fuelPerLap) IN
    IF lapsRemaining < 5 THEN
        [u |-> 10, pit |-> TRUE, reason |-> <<"CRITICAL: Fuel critically low">>]
    ELSE IF lapsRemaining < 10 THEN
        [u |-> 6, pit |-> FALSE, reason |-> <<"HIGH: Must pit for fuel soon">>]
    ELSE
        [u |-> 1, pit |-> FALSE, reason |-> <<>>]

strategyUrgencyOfMutant(currentPosition, cliffProb, weather, lapsSincePit) ==
    IF weather = "WET" \/ weather = "INTERMEDIATE" THEN
        [u |-> 5, reason |-> <<"MEDIUM: Weather changing - consider fresh tires">>]
    ELSE IF currentPosition > 10 /\ cliffProb > 5000 /\ lapsSincePit > 15 THEN
        [u |-> 6, reason |-> <<"MEDIUM: Use pit to change tire strategy">>]
    ELSE
        [u |-> 1, reason |-> <<>>]
strategyUrgencyOf(currentPosition, cliffProb, weather, lapsSincePit) ==
    IF currentPosition > 10 /\ cliffProb > 5000 /\ lapsSincePit > 15 THEN
        [u |-> 6, reason |-> <<"MEDIUM: Use pit to change tire strategy">>]
    ELSE IF weather = "WET" \/ weather = "INTERMEDIATE" THEN
        [u |-> 5, reason |-> <<"MEDIUM: Weather changing - consider fresh tires">>]
    ELSE
        [u |-> 1, reason |-> <<>>]

analyzePitStrategyMutant(s) ==
    LET t == cliffUrgency(tireAgeUrgency(s.cliffProb, s.tireAge, s.maxTireAge), s.cliffProb)
        f == fuelUrgencyOf(s.fuel, s.fuelPerLap)
        g == strategyUrgencyOf(s.currentPosition, s.cliffProb, s.weather, s.lapsSincePit)
        shouldPit == t.pit \/ f.pit
    IN  [shouldPit |-> shouldPit,
         reason |-> t.reason \o f.reason \o g.reason,
         tireUrgency |-> t.u,
         fuelUrgency |-> f.u,
         strategyUrgency |-> g.u,
         totalUrgency |-> MathRound(2 * (t.u + f.u + g.u), 7),
         decision |-> IF shouldPit THEN "BOX" ELSE "STAY"]
\* s is the currentState object: currentPosition, cliffProb, fuel,
\* fuelPerLap, weather, lapsSincePit, tireAge, maxTireAge.
analyzePitStrategy(s) ==
    LET t == cliffUrgency(tireAgeUrgency(s.cliffProb, s.tireAge, s.maxTireAge), s.cliffProb)
        f == fuelUrgencyOf(s.fuel, s.fuelPerLap)
        g == strategyUrgencyOf(s.currentPosition, s.cliffProb, s.weather, s.lapsSincePit)
        shouldPit == t.pit \/ f.pit
    IN  [shouldPit |-> shouldPit,
         reason |-> t.reason \o f.reason \o g.reason,
         tireUrgency |-> t.u,
         fuelUrgency |-> f.u,
         strategyUrgency |-> g.u,
         \* Math.round((t * 1.5 + f + s) / 3.5) = Math.round((3t + 2f + 2s) / 7)
         totalUrgency |-> MathRound(3 * t.u + 2 * f.u + 2 * g.u, 7),
         decision |-> IF shouldPit THEN "BOX" ELSE "STAY"]

\* variance = (Math.random() - 0.5) * 1 lies in [-0.5, 0.5), units of 1/S.
\* The value S / 2 stands for the largest draw, Math.random() = 1 - 2^-53:
\* variance is then 0.5 - 2^-53, and the double sum 1.0 + variance is the
\* tie between 1.5 - 2^-52 and 1.5, which rounds to 1.5.
\* spreadFactor = 1 - (lap / raceLength) * 0.5; positionsLost before the cap
\* is Math.ceil(24 / 28.5) * spreadFactor = spreadFactor.
estimatePositionLoss(currentPosition, lapArg, raceLength, variance) ==
    LET spreadFactor == S - RoundDiv(lapArg * S, 2 * raceLength)
        capped == Max(S, Min(spreadFactor, (currentPosition - 1) * S))
        withVar == Max(S, capped + variance)
    IN  [timeLossSeconds |-> 24,
         positionsLost |-> MathRound(withVar, S),
         newPosition |-> currentPosition + MathRound(withVar, S)]

(***************************************************************************)
(* Kalman addon (kalman_addon.cpp) and TireDegradationFilter               *)
(***************************************************************************)
cliff_threshold == 6000
steepness == 15

\* std::exp(-n) for a whole number n >= 0, in units of 1/S.
ExpNegInt(n) ==
    IF n > 9 THEN 0 ELSE <<10000, 3679, 1353, 498, 183, 67, 25, 9, 3, 1>>[n + 1]

\* std::exp(-f / S) for 0 <= f < S: the Taylor series in Horner form,
\* 1 - f (1 - f/2 (1 - f/3 ( ... ))), cut after ExpTerms terms.
ExpTerms == 10

RECURSIVE Horner(_, _)
Horner(f, k) ==
    IF k > ExpTerms THEN S ELSE S - RoundDiv(f * Horner(f, k + 1), k * S)

\* std::exp(-t / S) for t >= 0.
ExpNeg(t) == RoundDiv(ExpNegInt(t \div S) * Horner(t % S, 1), S)

\* On doubles 1.0 + exp(-z) is exactly 1.0 once exp(-z) <= 2^-53, that is
\* from x = 3.04912 on: the quotient is then exactly 1.0.  Below that the
\* quotient is strictly inside (0, 1) for every x the model can hold, so a
\* value that the grid would round to 0 or 1 is kept at 1 or S - 1.
SaturationX == 30492

\* The sigmoid with the sign of the exponent dropped: 1.0 / (1.0 + std::exp(z)).
cliffProbabilityMutant(x, threshold, steep) ==
    IF isNaN(x) THEN NaN
    ELSE IF steep * (threshold - x) >= steepness * (SaturationX - cliff_threshold) THEN S
    ELSE LET z == steep * (threshold - x)
             e == ExpNeg(Abs(z))
             raw == IF z >= 0 THEN RoundDiv(S * S, S + e) ELSE RoundDiv(S * e, S + e)
         IN  Max(1, Min(S - 1, raw))
\* 1.0 / (1.0 + std::exp(-steepness * (x - cliff_threshold)))
cliffProbability(x, threshold, steep) ==
    IF isNaN(x) THEN NaN
    ELSE IF steep * (x - threshold) >= steepness * (SaturationX - cliff_threshold) THEN S
    ELSE LET z == steep * (x - threshold)
             e == ExpNeg(Abs(z))
             raw == IF z >= 0 THEN RoundDiv(S * S, S + e) ELSE RoundDiv(S * e, S + e)
         IN  Max(1, Min(S - 1, raw))

\* The update without the predict step on the estimate: x_pred = x.
UpdateStateNoWear(x, P, Q, R, wear_rate, measurement) ==
    LET x_pred == x
        P_pred == P + Q
    IN  IF isNaN(x) \/ isNaN(P) \/ isNaN(measurement) \/ P_pred + R = 0 THEN [x |-> NaN, P |-> NaN, cliffProb |-> NaN]
        ELSE LET K == RoundDiv(P_pred * S, P_pred + R)
                 new_x == x_pred + RoundDiv(K * (measurement - x_pred), S)
                 new_P == RoundDiv((S - K) * P_pred, S)
             IN  [x |-> new_x, P |-> new_P,
                  cliffProb |-> cliffProbability(new_x, cliff_threshold, steepness)]
UpdateStateMutant(x, P, Q, R, wear_rate, measurement) ==
    LET x_pred == x + wear_rate
        P_pred == P + Q
    IN  IF isNaN(x) \/ isNaN(P) \/ isNaN(measurement) \/ P_pred + R = 0 THEN [x |-> NaN, P |-> NaN, cliffProb |-> NaN]
        ELSE LET K == RoundDiv(P_pred * S, P_pred + R)
                 new_x == x_pred + RoundDiv(K * (measurement - x_pred), S)
                 new_P == RoundDiv((S + K) * P_pred, S)
             IN  [x |-> new_x, P |-> new_P,
                  cliffProb |-> cliffProbability(new_x, cliff_threshold, steepness)]
\* UpdateState(x, P, Q, R, wear_rate, measurement) -> {x, P, cliffProb}.
\* There is no guard on P_pred + R: 0.0 / 0.0 is NaN and propagates.  For
\* non-negative P, Q, R the divisor is zero only when all three are zero.
UpdateState(x, P, Q, R, wear_rate, measurement) ==
    LET x_pred == x + wear_rate
        P_pred == P + Q
    IN  IF isNaN(x) \/ isNaN(P) \/ isNaN(measurement) \/ P_pred + R = 0 THEN [x |-> NaN, P |-> NaN, cliffProb |-> NaN]
        ELSE LET K == RoundDiv(P_pred * S, P_pred + R)
                 new_x == x_pred + RoundDiv(K * (measurement - x_pred), S)
                 new_P == RoundDiv((S - K) * P_pred, S)
             IN  [x |-> new_x, P |-> new_P,
                  cliffProb |-> cliffProbability(new_x, cliff_threshold, steepness)]

(***************************************************************************)
(* State                                                                   *)
(***************************************************************************)
VARIABLES
    args,                  \* arguments of the call under study (function-level specifications)
    result,                \* what that call did: [op, status, value]
    state,                 \* the filter state object {x, P, Q, R, wear_rate}
    raceState,             \* {currentPosition, rainfall}
    tireStrategy,          \* {stints, currentStint}
    fuelStrategy,          \* {currentFuel, consumed, laps}: fuel left, sum and length of fuelHistory
    isAgentThinking,
    lastDecisionLap,
    currentLap,
    executePitStop,
    pitStopCount,
    currentTireCompound,
    previousTireCompound,
    positionBeforePit,
    lapsSinceLastPit,
    pendingRequest,        \* the advisory promise in flight and what its callbacks captured
    timer,                 \* "running", "cleared" (race finished) or "crashed" (uncaught exception)
    lastTick,              \* what the latest timer callback did
    paceVarsDefined        \* whether the global scope holds compoundPaceDelta and wearPenalty

callVars == <<args, result>>
dashVars == <<raceState, tireStrategy, fuelStrategy, isAgentThinking, lastDecisionLap,
              currentLap, executePitStop, pitStopCount, currentTireCompound,
              previousTireCompound, positionBeforePit, lapsSinceLastPit, pendingRequest,
              timer, lastTick, paceVarsDefined>>
vars == <<args, result, state, dashVars>>

NoCall == [op |-> "none"]
Returned(op, v) == [op |-> op, status |-> "returned", value |-> v]

\* let state = { x: 0.0, P: 1.0, Q: 0.002, R: 1.5, wear_rate: 0.045 }
InitialFilterState == [x |-> 0, P |-> 10000, Q |-> 20, R |-> 15000, wear_rate |-> 450]

(***************************************************************************)
(* Dashboard start-up (dashboard.js module scope)                          *)
(***************************************************************************)
NoRequest == [lap |-> -1]
NoTick == [outcome |-> "none"]

\* new TireStrategy('HAM', null, startingPosition)
TireStrategyNew(startCompound, startingPosition) ==
    [stints |-> <<>>,
     currentStint |-> [stintNumber |-> 1,
                       startLap |-> 1,
                       tireCompound |-> startCompound,
                       startPosition |-> startingPosition,
                       lapsCompleted |-> 0,
                       maxExpectedLaps |-> getMaxLaps(startCompound),
                       ageRelativeToPeak |-> 0]]

\* new FuelStrategy(110, 44)
FuelStrategyNew == [currentFuel |-> 110 * S, consumed |-> 0, laps |-> 0]

\* Module-scope initialisation of the dashboard for one outcome of the
\* random starting compound and grid position.
DashboardAt(startCompound, startingPosition, defined) ==
    /\ raceState = [currentPosition |-> startingPosition, rainfall |-> 0]
    /\ tireStrategy = TireStrategyNew(startCompound, startingPosition)
    /\ fuelStrategy = FuelStrategyNew
    /\ isAgentThinking = FALSE
    /\ lastDecisionLap = -5
    /\ currentLap = 0
    /\ executePitStop = FALSE
    /\ pitStopCount = 0
    /\ currentTireCompound = startCompound
    /\ previousTireCompound = startCompound
    /\ positionBeforePit = 1
    /\ lapsSinceLastPit = 0
    /\ pendingRequest = NoRequest
    /\ timer = "running"
    /\ lastTick = NoTick
    /\ paceVarsDefined = defined

(***************************************************************************)
(* WeatherAnalyzer and FuelStrategy, as far as the loop depends on them    *)
(***************************************************************************)
\* analyzeWeatherImpact(...).condition: decided by rainfall alone.
weatherCondition(rainfall) ==
    IF rainfall > 5000 THEN (IF rainfall > 2 * S THEN "EXTREME_WET" ELSE "WET")
    ELSE IF rainfall > 1000 /\ rainfall <= 5000 THEN "INTERMEDIATE"
    ELSE "DRY"

\* The classifier before the fix of the weather detection: humid and cool
\* without rain counted as INTERMEDIATE.
analyzeWeatherImpactMutant(trackTemp, airTemp, humidity, rainfall) ==
    [condition |-> IF rainfall > 5000 THEN (IF rainfall > 2 * S THEN "EXTREME_WET" ELSE "WET")
                   ELSE IF humidity > 70 /\ trackTemp < 25 THEN "INTERMEDIATE"
                   ELSE "DRY",
     riskFactors |-> <<>>]
\* analyzeWeatherImpact(trackTemp, airTemp, humidity, rainfall): the
\* condition and the risk factors.  Temperatures are in whole degrees,
\* humidity in whole percent, rainfall in units of 1/S mm.
analyzeWeatherImpact(trackTemp, airTemp, humidity, rainfall) ==
    LET condition == weatherCondition(rainfall)
        blistering == IF trackTemp > 60 /\ condition = "DRY" THEN <<"BLISTERING_RISK">> ELSE <<>>
        heat == IF trackTemp > 65 THEN <<"EXTREME_HEAT">> ELSE <<>>
        cold == IF trackTemp < 15 THEN <<"COLD_TIRES">> ELSE <<>>
    IN  [condition |-> condition,
         riskFactors |-> blistering \o heat \o cold]
\* updateFuelLevel(lap, currentDegradation, drivingIntensity):
\* consumption = (1.2 * multiplier) * (1 + currentDegradation / 100).
updateFuelLevel(fs, currentDegradation, drivingIntensity) ==
    LET base == IF drivingIntensity = "AGGRESSIVE" THEN 15600 ELSE 12000
        consumption == base + RoundDiv(base * currentDegradation, 100 * S)
    IN  [currentFuel |-> fs.currentFuel - consumption,
         consumed |-> fs.consumed + consumption,
         laps |-> fs.laps + 1]

\* parseFloat(getFuelStatus().currentFuel): Math.max(0, fuel).toFixed(2).
fuelStatusCurrentFuel(fs) == RoundDiv(Max(0, fs.currentFuel), 100) * 100

getAverageConsumption(fs) ==
    IF fs.laps = 0 THEN 12000 ELSE RoundDiv(fs.consumed, fs.laps)

(***************************************************************************)
(* TireStrategy stint bookkeeping.  Of a stint the model keeps the number, *)
(* start lap, compound, positions, lap count, lifetime, age ratio and wear *)
(* status; the degradation and weather strings kept for display are left   *)
(* out.                                                                    *)
(***************************************************************************)
updateCurrentStint(ts, currentLapArg, currentPosition) ==
    LET cs == ts.currentStint
        lapsInCurrentStint == currentLapArg - cs.startLap + 1
        maxLaps == getMaxLaps(cs.tireCompound)
        fields == [f \in DOMAIN cs \cup {"currentPosition", "ageRelativeToPeak", "wearStatus"} |->
                     CASE f = "lapsCompleted" -> lapsInCurrentStint
                       [] f = "currentPosition" -> currentPosition
                       [] f = "ageRelativeToPeak" -> Min(RoundDiv(lapsInCurrentStint * S, maxLaps), S)
                       [] f = "wearStatus" -> getTireWearStatus(lapsInCurrentStint, cs.tireCompound)
                       [] OTHER -> cs[f]]
    IN  [ts EXCEPT !.currentStint = fields]

pitAndChangeCompoundMutant(ts, lap, newCompound, newPosition) ==
    LET cs == ts.currentStint
        saved == [f \in DOMAIN cs \cup {"endPosition"} |->
                     CASE f = "lapsCompleted" -> lap - cs.startLap
                       [] f = "endPosition" -> newPosition
                       [] OTHER -> cs[f]]
    IN  [stints |-> <<saved>>,
         currentStint |-> [stintNumber |-> Len(ts.stints) + 2,
                           startLap |-> lap + 1,
                           tireCompound |-> newCompound,
                           startPosition |-> newPosition,
                           lapsCompleted |-> 0,
                           maxExpectedLaps |-> getMaxLaps(newCompound)]]
pitAndChangeCompound(ts, lap, newCompound, newPosition) ==
    LET cs == ts.currentStint
        saved == [f \in DOMAIN cs \cup {"endPosition"} |->
                     CASE f = "lapsCompleted" -> lap - cs.startLap
                       [] f = "endPosition" -> newPosition
                       [] OTHER -> cs[f]]
        stints == Append(ts.stints, saved)
    IN  [stints |-> stints,
         currentStint |-> [stintNumber |-> Len(stints) + 1,
                           startLap |-> lap + 1,
                           tireCompound |-> newCompound,
                           startPosition |-> newPosition,
                           lapsCompleted |-> 0,
                           maxExpectedLaps |-> getMaxLaps(newCompound)]]

(***************************************************************************)
(* The timer callback of startRaceSimulation, block by block.  g is the    *)
(* record of the module-scope variables; a block that raises sets g.threw. *)
(***************************************************************************)
Globals ==
    [state |-> state, raceState |-> raceState, tireStrategy |-> tireStrategy,
     fuelStrategy |-> fuelStrategy, isAgentThinking |-> isAgentThinking,
     lastDecisionLap |-> lastDecisionLap, executePitStop |-> executePitStop,
     pitStopCount |-> pitStopCount, currentTireCompound |-> currentTireCompound,
     previousTireCompound |-> previousTireCompound, positionBeforePit |-> positionBeforePit,
     lapsSinceLastPit |-> lapsSinceLastPit, pendingRequest |-> pendingRequest,
     threw |-> FALSE]

ClampGrid(p) == Max(1, Min(20, p))

\* if (actualLap % 5 === 1) raceState.rainfall = ...
simulateWeather(g, actualLap, rain) ==
    IF actualLap % 5 = 1 THEN [g EXCEPT !.raceState.rainfall = rain] ELSE g

\* if (Math.random() < 0.1) currentPosition = clamp(currentPosition + posChange)
simulatePosition(g, posChange) ==
    IF posChange = 0 THEN g
    ELSE [g EXCEPT !.raceState.currentPosition = ClampGrid(@ + posChange)]

\* The stint update without the increment of the counter.
advanceStintMutant(g, actualLap) ==
    [g EXCEPT !.tireStrategy = updateCurrentStint(@, actualLap, g.raceState.currentPosition)]
\* tireStrategy.updateCurrentStint(...); lapsSinceLastPit++
advanceStint(g, actualLap) ==
    [g EXCEPT !.tireStrategy = updateCurrentStint(@, actualLap, g.raceState.currentPosition),
              !.lapsSinceLastPit = @ + 1]

tireChoices(condition) ==
    CASE condition = "DRY" -> <<"MEDIUM", "HARD", "SOFT">>
      [] condition = "INTERMEDIATE" -> <<"INTERMEDIATE">>
      [] condition = "WET" -> <<"WET", "INTERMEDIATE">>
      [] condition = "EXTREME_WET" -> <<"EXTREME_WET">>

Without(seq, c) == SelectSeq(seq, LAMBDA e : e # c)

\* The candidates for the next compound.  An empty array is truthy, so the
\* "|| ['HARD']" of the fallback never applies.
availableCompounds(previous, condition, lapsSince) ==
    LET preferred == IF previous = "SOFT" /\ condition = "DRY" THEN <<"MEDIUM", "HARD">>
                     ELSE IF previous = "HARD" /\ condition = "DRY" /\ lapsSince > 25
                          THEN <<"SOFT", "MEDIUM">>
                     ELSE tireChoices(condition)
        filtered == Without(preferred, previous)
    IN  IF Len(filtered) = 0 THEN Without(tireChoices(condition), previous) ELSE filtered

\* availableCompounds[Math.floor(Math.random() * availableCompounds.length)]
pickCompound(available, pick) ==
    IF Len(available) = 0 THEN undefined ELSE available[((pick - 1) % Len(available)) + 1]

\* state.x = 0.0; state.P = 1.0
resetFilterMutant(st) == [st EXCEPT !.x = 0]
resetFilter(st) == [st EXCEPT !.x = 0, !.P = S]

\* The pit block without pitStopCount++.
pitStopMutant(g, actualLap, variance, pick) ==
    LET pitImpact == estimatePositionLoss(g.raceState.currentPosition, actualLap, 300, variance)
        newPosition == pitImpact.newPosition
        condition == weatherCondition(g.raceState.rainfall)
        previous == g.currentTireCompound
        newCompound == pickCompound(availableCompounds(previous, condition, g.lapsSinceLastPit), pick)
    IN  [g EXCEPT !.positionBeforePit = g.raceState.currentPosition,
                  !.previousTireCompound = previous,
                  !.tireStrategy = pitAndChangeCompound(@, actualLap, newCompound, newPosition),
                  !.raceState.currentPosition = newPosition,
                  !.state = resetFilter(@),
                  !.currentTireCompound = newCompound,
                  !.lapsSinceLastPit = 0,
                  !.executePitStop = (newCompound = undefined),
                  !.threw = (newCompound = undefined)]
\* if (executePitStop) { ... }.  Logging the new compound with padEnd
\* raises a TypeError when no compound was picked; executePitStop = false
\* comes after it.
pitStop(g, actualLap, variance, pick) ==
    LET pitImpact == estimatePositionLoss(g.raceState.currentPosition, actualLap, 300, variance)
        newPosition == pitImpact.newPosition
        condition == weatherCondition(g.raceState.rainfall)
        previous == g.currentTireCompound
        newCompound == pickCompound(availableCompounds(previous, condition, g.lapsSinceLastPit), pick)
    IN  [g EXCEPT !.pitStopCount = @ + 1,
                  !.positionBeforePit = g.raceState.currentPosition,
                  !.previousTireCompound = previous,
                  !.tireStrategy = pitAndChangeCompound(@, actualLap, newCompound, newPosition),
                  !.raceState.currentPosition = newPosition,
                  !.state = resetFilter(@),
                  !.currentTireCompound = newCompound,
                  !.lapsSinceLastPit = 0,
                  !.executePitStop = (newCompound = undefined),
                  !.threw = (newCompound = undefined)]

\* adjustedDegradationDelta = degradationDelta * degradationMultiplier
adjustedDelta(g, degradationDelta) ==
    RoundDiv(degradationDelta
               * getDegradationCurveMultiplier(g.lapsSinceLastPit, g.currentTireCompound), 10)

kalmanResult(g, degradationDelta) ==
    UpdateState(g.state.x, g.state.P, g.state.Q, g.state.R, g.state.wear_rate,
                adjustedDelta(g, degradationDelta))

\* state.x = result.x; state.P = result.P
storeResultMutant(st, r) == [st EXCEPT !.x = r.x, !.P = r.P, !.R = r.P]
storeResult(st, r) == [st EXCEPT !.x = r.x, !.P = r.P]

\* The position change derived from tire age and cliff probability.  hit
\* is the outcome of the Math.random() draw of the branch taken; gapClose
\* stands for gapToLeader < 0.5, the gap being a random walk of its own.
positionChange(lapsSince, maxLaps, cliffProb, gapClose, hit) ==
    IF lapsSince * 10 < maxLaps * 4 THEN (IF cliffProb < 6000 /\ hit THEN -1 ELSE 0)
    ELSE IF lapsSince * 10 > maxLaps * 8 THEN (IF cliffProb > 7500 /\ hit THEN 1 ELSE 0)
    ELSE IF gapClose /\ hit THEN -1
    ELSE IF cliffProb > 8000 /\ hit THEN 1
    ELSE 0

\* Lines 851-899 for the addon's result r: state feedback, position
\* dynamics, fuel.
applyMeasurement(g, r, gapClose, hit) ==
    [g EXCEPT !.state = storeResult(@, r),
              !.raceState.currentPosition =
                  ClampGrid(@ + positionChange(g.lapsSinceLastPit,
                                               getMaxLaps(g.currentTireCompound),
                                               r.cliffProb, gapClose, hit)),
              !.fuelStrategy = updateFuelLevel(@, r.x,
                                   IF r.cliffProb > 5000 THEN "AGGRESSIVE" ELSE "NORMAL")]

\* handleAiDecision below the mandatory check, for the analysis computed
\* at its top: the request is sent, and the callbacks capture lap and
\* pitAnalysis.
requestAdvice(g, lap, currentCliff, pitAnalysis) ==
    IF ~(currentCliff > 4000 \/ (lap > 0 /\ lap % 4 = 0) \/ pitAnalysis.shouldPit) THEN g
    ELSE IF lap - g.lastDecisionLap < 2 THEN g
    ELSE [g EXCEPT !.lastDecisionLap = lap,
                   !.isAgentThinking = TRUE,
                   !.pendingRequest = [lap |-> lap, totalUrgency |-> pitAnalysis.totalUrgency]]

\* handleAiDecision without its first line, the return while a request is
\* in flight.
handleAiDecisionMutant(g, lap, currentCliff) ==
    IF isPitStopMandatory(g.lapsSinceLastPit, g.currentTireCompound) THEN
        [g EXCEPT !.executePitStop = TRUE,
                  !.positionBeforePit = g.raceState.currentPosition]
    ELSE requestAdvice(g, lap, currentCliff,
             analyzePitStrategy(
                [currentPosition |-> g.raceState.currentPosition,
                 cliffProb |-> currentCliff,
                 fuel |-> fuelStatusCurrentFuel(g.fuelStrategy),
                 fuelPerLap |-> getAverageConsumption(g.fuelStrategy),
                 weather |-> weatherCondition(g.raceState.rainfall),
                 lapsSincePit |-> g.lapsSinceLastPit,
                 tireAge |-> g.lapsSinceLastPit,
                 maxTireAge |-> getMaxLaps(g.currentTireCompound)]))
\* handleAiDecision with the mandatory check moved above the return of its
\* first line.
handleAiDecisionMandatoryFirst(g, lap, currentCliff) ==
    IF isPitStopMandatory(g.lapsSinceLastPit, g.currentTireCompound) THEN
        [g EXCEPT !.executePitStop = TRUE,
                  !.positionBeforePit = g.raceState.currentPosition]
    ELSE IF g.isAgentThinking THEN g
    ELSE requestAdvice(g, lap, currentCliff,
             analyzePitStrategy(
                [currentPosition |-> g.raceState.currentPosition,
                 cliffProb |-> currentCliff,
                 fuel |-> fuelStatusCurrentFuel(g.fuelStrategy),
                 fuelPerLap |-> getAverageConsumption(g.fuelStrategy),
                 weather |-> weatherCondition(g.raceState.rainfall),
                 lapsSincePit |-> g.lapsSinceLastPit,
                 tireAge |-> g.lapsSinceLastPit,
                 maxTireAge |-> getMaxLaps(g.currentTireCompound)]))
\* handleAiDecision(lap, dropObj, currentP, currentCliff)
handleAiDecision(g, lap, currentCliff) ==
    IF g.isAgentThinking THEN g
    ELSE IF isPitStopMandatory(g.lapsSinceLastPit, g.currentTireCompound) THEN
        [g EXCEPT !.executePitStop = TRUE,
                  !.positionBeforePit = g.raceState.currentPosition]
    ELSE requestAdvice(g, lap, currentCliff,
             analyzePitStrategy(
                [currentPosition |-> g.raceState.currentPosition,
                 cliffProb |-> currentCliff,
                 fuel |-> fuelStatusCurrentFuel(g.fuelStrategy),
                 fuelPerLap |-> getAverageConsumption(g.fuelStrategy),
                 weather |-> weatherCondition(g.raceState.rainfall),
                 lapsSincePit |-> g.lapsSinceLastPit,
                 tireAge |-> g.lapsSinceLastPit,
                 maxTireAge |-> getMaxLaps(g.currentTireCompound)]))

\* Lines 731-757: weather, position jitter, stint update, lapsSinceLastPit++.
tickStart(g, actualLap, rain, posChange) ==
    advanceStint(simulatePosition(simulateWeather(g, actualLap, rain), posChange), actualLap)

\* Lines 759-837.
tickPit(g, actualLap, variance, pick) ==
    IF g.executePitStop THEN pitStop(g, actualLap, variance, pick) ELSE g

\* Lines 840-941 for the addon's result r.
tickMeasured(g, actualLap, r, gapClose, hit, defined) ==
    IF defined THEN handleAiDecision(applyMeasurement(g, r, gapClose, hit), actualLap, r.cliffProb)
    ELSE [applyMeasurement(g, r, gapClose, hit) EXCEPT !.threw = TRUE]

\* Lines 839-942, g being the globals after the pit block.
tickEnd(g, actualLap, degradationDelta, gapClose, hit, defined) ==
    IF g.threw \/ isNaN(degradationDelta) THEN g
    ELSE tickMeasured(g, actualLap, kalmanResult(g, degradationDelta), gapClose, hit, defined)

tickLog(g0, g2, g4, actualLap, degradationDelta) ==
    [outcome |-> IF g4.threw THEN "threw"
                 ELSE IF isNaN(degradationDelta) THEN "skipped" ELSE "ok",
     lap |-> actualLap,
     degradationDelta |-> degradationDelta,
     adjusted |-> IF g2.threw \/ isNaN(degradationDelta) THEN NaN
                  ELSE adjustedDelta(g2, degradationDelta),
     pitted |-> g0.executePitStop]

tickFinish(g0, g2, g4, actualLap, degradationDelta) ==
    [g |-> g4, log |-> tickLog(g0, g2, g4, actualLap, degradationDelta)]

tickFromPit(g0, g2, actualLap, degradationDelta, gapClose, hit, defined) ==
    tickFinish(g0, g2, tickEnd(g2, actualLap, degradationDelta, gapClose, hit, defined),
               actualLap, degradationDelta)

\* One run of the interval callback on the next telemetry row (rows carry
\* consecutive lap numbers from 1).  Line 908 formats compoundPaceDelta +
\* wearPenalty, identifiers that no file of the repository declares: the
\* callback raises a ReferenceError there unless the global scope supplies
\* them.  An exception leaves the callback at once, before currentLap++,
\* and ends the process.
tickResult(g0, actualLap, defined, degradationDelta, rain, posChange, gapClose, hit, variance, pick) ==
    tickFromPit(g0, tickPit(tickStart(g0, actualLap, rain, posChange), actualLap, variance, pick),
                actualLap, degradationDelta, gapClose, hit, defined)

(***************************************************************************)
(* Bounds of the dashboard specification                                   *)
(***************************************************************************)
\* The telemetry stream has MaxRows rows.  A row's delta is DeltaValue; the
\* deltas that are not numbers are those of some of the rows listed in
\* BlankRows, or those of all rows (a file without the column).  The
\* Math.random() draws for the position jitter come out below 0.1 only on
\* the laps of JitterLaps, and the draws of the position dynamics succeed
\* only on the laps of HitLaps.  The advisory service answers BOX only to
\* the requests sent on the laps of BoxLaps.
MaxRows == 19
MaxPits == 2
DeltaValue == S \div 4
BlankRows == {1}
JitterLaps == {3}
HitLaps == {2, 18}
Rainfalls == {0, 3000}
StartCompounds == {"SOFT", "HARD"}
StartPositions == {1, 20}
Variances == {-5000, 4999}
BoxLaps == {4, 16}
Confidences == {3000, 9000, NaN}

Stream(blank) == [lap \in 1 .. MaxRows |-> IF lap \in blank THEN NaN ELSE DeltaValue]
Streams == {Stream(blank) : blank \in (SUBSET BlankRows) \cup {1 .. MaxRows}}
PosChanges(lap) == IF lap \in JitterLaps THEN {-1, 0, 1} ELSE {0}
Decisions(lap) == IF lap \in BoxLaps THEN {"BOX", "STAY"} ELSE {"STAY"}
Hits(lap, degradationDelta) ==
    IF lap \in HitLaps /\ ~isNaN(degradationDelta) THEN BOOLEAN ELSE {FALSE}

(***************************************************************************)
(* Spec: the dashboard                                                     *)
(***************************************************************************)
Init ==
    /\ args \in [op : {"dashboard"}, telemetryStream : Streams]
    /\ result = NoCall
    /\ state = InitialFilterState
    /\ \E c \in StartCompounds, p \in StartPositions, d \in BOOLEAN : DashboardAt(c, p, d)

Tick(degradationDelta, rain, posChange, gapClose, hit, variance, pick) ==
    /\ timer = "running"
    /\ currentLap < MaxRows
    /\ executePitStop => pitStopCount < MaxPits
    /\ \E t \in {tickResult(Globals, currentLap + 1, paceVarsDefined, degradationDelta, rain,
                            posChange, gapClose, hit, variance, pick)} :
           /\ state' = t.g.state
           /\ raceState' = t.g.raceState
           /\ tireStrategy' = t.g.tireStrategy
           /\ fuelStrategy' = t.g.fuelStrategy
           /\ isAgentThinking' = t.g.isAgentThinking
           /\ lastDecisionLap' = t.g.lastDecisionLap
           /\ executePitStop' = t.g.executePitStop
           /\ pitStopCount' = t.g.pitStopCount
           /\ currentTireCompound' = t.g.currentTireCompound
           /\ previousTireCompound' = t.g.previousTireCompound
           /\ positionBeforePit' = t.g.positionBeforePit
           /\ lapsSinceLastPit' = t.g.lapsSinceLastPit
           /\ pendingRequest' = t.g.pendingRequest
           /\ currentLap' = IF t.g.threw THEN currentLap ELSE currentLap + 1
           /\ timer' = IF t.g.threw THEN "crashed" ELSE "running"
           /\ lastTick' = t.log
    /\ UNCHANGED <<args, result, paceVarsDefined>>

\* if (currentLap >= telemetryStream.length) { clearInterval(interval); ... }
RaceFinished ==
    /\ timer = "running"
    /\ currentLap >= MaxRows
    /\ timer' = "cleared"
    /\ UNCHANGED <<args, result, state, raceState, tireStrategy, fuelStrategy, isAgentThinking,
                   lastDecisionLap, currentLap, executePitStop, pitStopCount,
                   currentTireCompound, previousTireCompound, positionBeforePit,
                   lapsSinceLastPit, pendingRequest, lastTick, paceVarsDefined>>

\* The test of the .then callback without its comparison of the decision.
advisoryBoxesMutant(decision, confidence, totalUrgency) ==
    /\ ~isNaN(confidence)
    /\ (confidence >= 6500 \/ totalUrgency > 5)
\* The .then callback on a response that parses, followed by .finally.
\* Comparisons with a confidence that is not a number are false.
advisoryBoxes(decision, confidence, totalUrgency) ==
    /\ decision = "BOX"
    /\ ~isNaN(confidence)
    /\ (confidence >= 6500 \/ totalUrgency > 5)

AdvisoryResponse(decision, confidence) ==
    /\ timer # "crashed"
    /\ pendingRequest # NoRequest
    /\ IF advisoryBoxes(decision, confidence, pendingRequest.totalUrgency)
       THEN /\ executePitStop' = TRUE
            /\ positionBeforePit' = raceState.currentPosition
       ELSE UNCHANGED <<executePitStop, positionBeforePit>>
    /\ isAgentThinking' = FALSE
    /\ pendingRequest' = NoRequest
    /\ UNCHANGED <<args, result, state, raceState, tireStrategy, fuelStrategy, lastDecisionLap,
                   currentLap, pitStopCount, currentTireCompound, previousTireCompound,
                   lapsSinceLastPit, timer, lastTick, paceVarsDefined>>

\* A response that does not parse (the fallback reads responseContent, which
\* is scoped to the try block, and so always ends in the inner catch), or a
\* rejected request: only .finally has an effect.
AdvisoryFailure ==
    /\ timer # "crashed"
    /\ pendingRequest # NoRequest
    /\ isAgentThinking' = FALSE
    /\ pendingRequest' = NoRequest
    /\ UNCHANGED <<args, result, state, raceState, tireStrategy, fuelStrategy, lastDecisionLap,
                   currentLap, executePitStop, pitStopCount, currentTireCompound,
                   previousTireCompound, positionBeforePit, lapsSinceLastPit, timer, lastTick,
                   paceVarsDefined>>

\* The interval callback on the next row, for every outcome of its draws.
TimerTick ==
    \E degradationDelta \in {args.telemetryStream[Min(currentLap + 1, MaxRows)]},
       rain \in (IF (currentLap + 1) % 5 = 1 THEN Rainfalls ELSE {raceState.rainfall}),
       posChange \in PosChanges(currentLap + 1),
       variance \in (IF executePitStop THEN Variances ELSE {0}),
       pick \in (IF executePitStop THEN 1 .. 2 ELSE {1}) :
         \E gapClose, hit \in Hits(currentLap + 1, degradationDelta) :
             Tick(degradationDelta, rain, posChange, gapClose, hit, variance, pick)

Next ==
    \/ TimerTick
    \/ RaceFinished
    \/ \E decision \in Decisions(pendingRequest.lap), confidence \in Confidences :
            AdvisoryResponse(decision, confidence)
    \/ AdvisoryFailure

Spec == Init /\ [][Next]_vars

\* The steps of the interval callback, told from the advisory callbacks by
\* what they write: a callback either ends the interval (clearInterval, or
\* an uncaught exception) or reaches currentLap++.  The callback is due
\* while the interval is active; the model runs it unless the pit stop it
\* would execute is beyond MaxPits.
TimerCallback ==
    /\ timer = "running"
    /\ (currentLap < MaxRows /\ executePitStop) => pitStopCount < MaxPits
    /\ \E t \in {"running", "cleared", "crashed"}, l \in {currentLap, currentLap + 1} :
           /\ <<t, l>> # <<timer, currentLap>>
           /\ timer' = t
           /\ currentLap' = l

\* setInterval keeps calling the callback until clearInterval: a callback
\* that is due runs.  Nothing makes the advisory service answer.
SpecLive == Spec /\ WF_<<timer, currentLap>>(TimerCallback)

(***************************************************************************)
(* Bounds of the function-level specifications                             *)
(***************************************************************************)
MaxAge == 41
CliffProbs == {-1000, 0, 3000, 5000, 5001, 6499, 6500, 7499, 7500, 7501, 10000, 15000}
LapsSince == {-1, 0, 15, 20, 21}
MaxTireAges == {getMaxLaps(c) : c \in Compounds \cup {undefined}} \cup {25}

(***************************************************************************)
(* SpecLadder: determineOptimalPitWindow applied to drawn arguments.       *)
(***************************************************************************)
InitLadder ==
    /\ args \in [op : {"determineOptimalPitWindow"},
                 currentCliffProb : CliffProbs,
                 lapsSinceLastPit : LapsSince,
                 tireAge : -1 .. MaxAge,
                 maxTireAge : MaxTireAges]
    /\ result = NoCall
    /\ state = InitialFilterState
    /\ DashboardAt("SOFT", 1, FALSE)

CallLadder ==
    /\ args.op = "determineOptimalPitWindow"
    /\ result = NoCall
    /\ result' = Returned("determineOptimalPitWindow",
                          determineOptimalPitWindow(0, args.currentCliffProb, args.lapsSinceLastPit,
                                                    args.tireAge, args.maxTireAge))
    /\ UNCHANGED <<args, state, dashVars>>

NextLadder == CallLadder

SpecLadder == InitLadder /\ [][NextLadder]_vars

(***************************************************************************)
(* SpecTire: the TireStrategy age functions applied to drawn arguments.    *)
(***************************************************************************)
InitTire ==
    /\ args \in [op : {"TireStrategy"},
                 lapsCompleted : 0 .. MaxAge,
                 compound : Compounds \cup {undefined}]
    /\ result = NoCall
    /\ state = InitialFilterState
    /\ DashboardAt("SOFT", 1, FALSE)

CallTire ==
    /\ args.op = "TireStrategy"
    /\ result = NoCall
    /\ result' = Returned("TireStrategy",
                          [maxLaps |-> getMaxLaps(args.compound),
                           mandatory |-> isPitStopMandatory(args.lapsCompleted, args.compound),
                           wearStatus |-> getTireWearStatus(args.lapsCompleted, args.compound),
                           multiplier |-> getDegradationCurveMultiplier(args.lapsCompleted, args.compound)])
    /\ UNCHANGED <<args, state, dashVars>>

NextTire == CallTire

SpecTire == InitTire /\ [][NextTire]_vars

(***************************************************************************)
(* SpecKalman: the addon called repeatedly, the caller feeding x and P     *)
(* back (server.js: state.x = result.x; state.P = result.P).  Variances    *)
(* are drawn non-negative.                                                 *)
(***************************************************************************)
MaxUpdates == 3
Measurements == {400, 7000, 20000}

InitKalman ==
    /\ state \in [x : {0, 5000}, P : {0, 10000}, Q : {0, 20, 100},
                  R : {0, 5000, 15000}, wear_rate : {450, 500}]
    /\ args = [op |-> "UpdateState", updates |-> 0]
    /\ result = NoCall
    /\ DashboardAt("SOFT", 1, FALSE)

\* The addon returns an object for every six numbers: it has no throw.
KalmanUpdate(measurement) ==
    /\ args.op = "UpdateState"
    /\ args.updates < MaxUpdates
    /\ LET r == UpdateState(state.x, state.P, state.Q, state.R, state.wear_rate, measurement)
       IN  /\ result' = [op |-> "UpdateState", status |-> "returned", value |-> r,
                         measurement |-> measurement]
           /\ state' = [state EXCEPT !.x = r.x, !.P = r.P]
    /\ args' = [args EXCEPT !.updates = @ + 1]
    /\ UNCHANGED dashVars

NextKalman == \E measurement \in Measurements : KalmanUpdate(measurement)

SpecKalman == InitKalman /\ [][NextKalman]_vars

(***************************************************************************)
(* Properties of determineOptimalPitWindow (SpecLadder)                    *)
(***************************************************************************)
LadderCalled == result.op = "determineOptimalPitWindow"

ValidLadderArgs ==
    /\ args.currentCliffProb >= 0
    /\ args.currentCliffProb <= S
    /\ args.lapsSinceLastPit >= 0
    /\ args.tireAge >= 0
    /\ args.maxTireAge > 0

\* The tire age is at or beyond 99% of the lifetime of a compound whose
\* lifetime is the maxTireAge passed in.
MandatoryAge ==
    \E c \in Compounds \cup {undefined} :
        /\ args.maxTireAge = getMaxLaps(c)
        /\ 100 * args.tireAge >= 99 * getMaxLaps(c)

\* The ladder as written down in the design, with the age rung at agePercent.
LadderVerdict(agePercent) ==
    IF 100 * args.tireAge >= agePercent * args.maxTireAge THEN "PIT_IMMEDIATELY"
    ELSE IF args.currentCliffProb >= 7500 THEN "PIT_IMMEDIATELY"
    ELSE IF args.currentCliffProb >= 6500 THEN "PIT_SOON"
    ELSE IF args.lapsSinceLastPit > 20 /\ args.currentCliffProb > 5000 THEN "CONSIDER_PIT"
    ELSE "STAY_OUT"

C3_LadderAt99 ==
    (LadderCalled /\ ValidLadderArgs) =>
        result.value.recommendation = LadderVerdict(99)

\* C3 amended: for valid inputs the recommendation is PIT_IMMEDIATELY if
\* tireAge / maxTireAge >= 0.95 or cliffProb >= 0.75, otherwise PIT_SOON if
\* cliffProb >= 0.65, otherwise CONSIDER_PIT if lapsSinceLastPit > 20 and
\* cliffProb > 0.50, otherwise STAY_OUT.
C3_LadderAt95 ==
    (LadderCalled /\ ValidLadderArgs) =>
        result.value.recommendation = LadderVerdict(95)

C3_Witness ==
    /\ LadderCalled
    /\ ValidLadderArgs
    /\ 100 * args.tireAge >= 95 * args.maxTireAge
    /\ 100 * args.tireAge < 99 * args.maxTireAge
    /\ args.currentCliffProb < 6500
    /\ args.lapsSinceLastPit <= 20
    /\ result.value.recommendation = "PIT_IMMEDIATELY"

\* C4. Whenever cliffProb >= 0.75 the ladder returns PIT_IMMEDIATELY, for
\* every tire age, maxTireAge and lapsSinceLastPit, also below the
\* mandatory age.
C4_CriticalCliffPitsImmediately ==
    (LadderCalled /\ args.currentCliffProb >= 7500) =>
        result.value.recommendation = "PIT_IMMEDIATELY"

C4_Witness ==
    /\ LadderCalled
    /\ args.currentCliffProb = 7500
    /\ 100 * args.tireAge < 95 * args.maxTireAge
    /\ result.value.recommendation = "PIT_IMMEDIATELY"
    /\ result.value.reason = "Tires at critical degradation level"

InvalidLadderArgs ==
    \/ args.currentCliffProb < 0
    \/ args.currentCliffProb > S
    \/ args.lapsSinceLastPit < 0
    \/ args.tireAge < 0

\* C7. A call with a negative lap count or tire age, or a cliff
\* probability outside [0,1], fails with InvalidInputError and returns no
\* recommendation.
C7_InvalidInputsRejected ==
    (LadderCalled /\ InvalidLadderArgs) => result.status = "threw"

(***************************************************************************)
(* Properties of the TireStrategy age functions (SpecTire)                 *)
(***************************************************************************)
TireCalled == result.op = "TireStrategy"

\* Lifetime table of the design document.
LifetimeTable(c) ==
    IF c = "SOFT" THEN 18 ELSE IF c = "MEDIUM" THEN 28 ELSE IF c = "HARD" THEN 40
    ELSE IF c = "WET" THEN 35 ELSE IF c = "INTERMEDIATE" THEN 30
    ELSE IF c = "EXTREME_WET" THEN 25 ELSE 20

\* C5. isPitStopMandatory(laps, compound) holds exactly when
\* laps / max_laps(compound) >= 0.99, and then getTireWearStatus is
\* MANDATORY; SOFT at 17 laps is CRITICAL and not mandatory, SOFT at 18
\* laps is mandatory.
C5_MandatoryImpliesStatus ==
    TireCalled =>
        /\ result.value.mandatory <=>
               (100 * args.lapsCompleted >= 99 * LifetimeTable(args.compound))
        /\ result.value.mandatory => result.value.wearStatus = "MANDATORY"
        /\ (args.compound = "SOFT" /\ args.lapsCompleted = 17) =>
               (result.value.wearStatus = "CRITICAL" /\ ~result.value.mandatory)
        /\ (args.compound = "SOFT" /\ args.lapsCompleted = 18) => result.value.mandatory

C5_Witness ==
    /\ TireCalled
    /\ args.compound = "SOFT"
    /\ args.lapsCompleted = 18
    /\ result.value.mandatory
    /\ result.value.wearStatus = "MANDATORY"

(***************************************************************************)
(* Properties of the Kalman update (SpecKalman)                            *)
(***************************************************************************)
\* C8. When the combined variance P + Q + R is not positive the update
\* fails with DegenerateFilterError: it returns no estimate and leaves
\* (x, P) unchanged.
C8_DegenerateFilterFails ==
    [][(/\ args'.updates = args.updates + 1
        /\ ~isNaN(state.P)
        /\ state.P + state.Q + state.R <= 0)
       => (/\ result'.status = "threw"
           /\ state'.x = state.x
           /\ state'.P = state.P)]_vars

(***************************************************************************)
(* Properties of the dashboard loop (Spec)                                 *)
(***************************************************************************)
\* Every run of the interval callback, and no other step, writes lastTick
\* (the lap of a completed tick is one more than that of the tick before).
TickStep == lastTick' # lastTick

\* C1. On every tick for which isPitStopMandatory(lapsSinceLastPit,
\* currentTireCompound) is true a pit stop is scheduled on that tick:
\* executePitStop is true after it, whatever the cliff probability and the
\* urgency score, and also while an advisory request is in flight.
C1_MandatoryAlwaysSchedulesPit ==
    [][(TickStep /\ isPitStopMandatory(lapsSinceLastPit', currentTireCompound'))
       => executePitStop']_vars

\* C6. A tick that is skipped (measurement not a number) or that raises an
\* exception leaves the filter state, the current stint and the lap
\* counters as they were before the tick.
C6_FailedTickChangesNothing ==
    [][(TickStep /\ lastTick'.outcome \in {"skipped", "threw"})
       => (/\ state' = state
           /\ tireStrategy' = tireStrategy
           /\ lapsSinceLastPit' = lapsSinceLastPit
           /\ currentLap' = currentLap)]_vars

\* The estimate and covariance the Kalman block of a tick starts from: the
\* initial prior (0.0, 1.0) on a tick that executes a pit stop, the values
\* before the tick otherwise.
TickPrior ==
    IF lastTick'.pitted THEN [x |-> InitialFilterState.x, P |-> InitialFilterState.P]
    ELSE [x |-> state.x, P |-> state.P]

KalmanOf(prior, measurement) ==
    UpdateState(prior.x, prior.P, state.Q, state.R, state.wear_rate, measurement)

\* C9. (state.x, state.P) is reset to the initial prior (0.0, 1.0) on every
\* tick that executes a pit stop and on no other tick; apart from that
\* (x, P) change only by being replaced with the result of the Kalman
\* update of the tick's age-adjusted measurement, and no step other than a
\* tick changes them.
C9_FilterResetOnlyOnPit ==
    [][IF TickStep
       THEN <<state'.x, state'.P>> =
                IF isNaN(lastTick'.adjusted) THEN <<TickPrior.x, TickPrior.P>>
                ELSE <<KalmanOf(TickPrior, lastTick'.adjusted).x,
                       KalmanOf(TickPrior, lastTick'.adjusted).P>>
       ELSE <<state'.x, state'.P>> = <<state.x, state.P>>]_vars

\* A pit stop has executed on a tick whose measurement was a number, after
\* the estimate had moved away from the prior.
C9_Witness ==
    /\ lastTick.outcome = "ok"
    /\ lastTick.pitted
    /\ lastTick.lap > 3
    /\ pitStopCount = 1
    /\ state.x = KalmanOf(InitialFilterState, lastTick.adjusted).x
    /\ state.P = KalmanOf(InitialFilterState, lastTick.adjusted).P

\* C10. Q, R and wear_rate keep the values the state object is constructed
\* with in every reachable state of the dashboard.
C10_FilterConfigurationConstant ==
    /\ state.Q = InitialFilterState.Q
    /\ state.R = InitialFilterState.R
    /\ state.wear_rate = InitialFilterState.wear_rate

\* Kalman updates, an advisory callback and a pit stop have all happened.
C10_Witness ==
    /\ lastTick.outcome = "ok"
    /\ ~lastTick.pitted
    /\ pitStopCount = 1
    /\ lastDecisionLap > 0
    /\ ~isAgentThinking
    /\ state.x > 0
    /\ state.P < InitialFilterState.P

\* A call of the addon has just returned.
UpdateStep == args'.updates = args.updates + 1

\* C11. With Q >= 0, R > 0 and a covariance P that is non-negative (it
\* starts positive), the covariance after a Kalman update is non-negative;
\* and when Q = 0 it is not larger than the covariance before the update.
C11_CovarianceNonNegativeNonIncreasing ==
    [][(/\ UpdateStep
        /\ state.Q >= 0
        /\ state.R > 0
        /\ ~isNaN(state.P)
        /\ state.P >= 0)
       => (/\ ~isNaN(state'.P)
           /\ state'.P >= 0
           /\ (state.Q = 0 => state'.P <= state.P))]_vars

\* Two updates with Q = 0 and R > 0 have shrunk a positive covariance.
C11_Witness ==
    /\ args.op = "UpdateState"
    /\ args.updates >= 2
    /\ state.Q = 0
    /\ state.R > 0
    /\ ~isNaN(state.P)
    /\ state.P > 0
    /\ state.P < S

(***************************************************************************)
(* SpecEngine: the estimator and the scorer run repeatedly from one filter *)
(* state on one measurement and context, the Math.random() stream of the   *)
(* process being at a different draw each time.                            *)
(***************************************************************************)
MaxRuns == 2
Draws == {0, 4999, 9999}

\* What one tick computes from the filter state st, the measurement and the
\* context ctx: the addon's result for the age-adjusted measurement, the
\* analyzePitStrategy report and the determineOptimalPitWindow verdict.
\* draw is the next value Math.random() would return; none of the three
\* functions asks for it.
engineOutputsMutant(st, ctx, measurement, draw) ==
    [kalman |-> UpdateState(st.x, st.P, st.Q, st.R, st.wear_rate, measurement + (draw - 5000)),
     analysis |-> <<>>,
     window |-> <<>>]
engineOutputs(st, ctx, measurement, draw) ==
    LET adjusted == RoundDiv(measurement
                               * getDegradationCurveMultiplier(ctx.lapsSincePit, ctx.compound), 10)
        r == UpdateState(st.x, st.P, st.Q, st.R, st.wear_rate, adjusted)
        maxTireAge == getMaxLaps(ctx.compound)
    IN  [kalman |-> r,
         analysis |-> analyzePitStrategy(
                          [currentPosition |-> ctx.position,
                           cliffProb |-> r.cliffProb,
                           fuel |-> ctx.fuel,
                           fuelPerLap |-> ctx.fuelPerLap,
                           weather |-> ctx.weather,
                           lapsSincePit |-> ctx.lapsSincePit,
                           tireAge |-> ctx.lapsSincePit,
                           maxTireAge |-> maxTireAge]),
         window |-> determineOptimalPitWindow(ctx.lap, r.cliffProb, ctx.lapsSincePit,
                                              ctx.lapsSincePit, maxTireAge)]

InitEngine ==
    /\ args \in [op : {"engine"},
                 measurement : {400, 7000, 20000},
                 ctx : [lap : {21}, lapsSincePit : {0, 16, 21}, compound : {"SOFT", "HARD"},
                        position : {1, 15}, fuel : {5 * S, 110 * S}, fuelPerLap : {12000},
                        weather : {"DRY", "WET"}]]
    /\ result = [op |-> "engine", runs |-> <<>>]
    /\ state \in [x : {0, 5000}, P : {2000, 10000}, Q : {20}, R : {15000}, wear_rate : {450}]
    /\ DashboardAt("SOFT", 1, FALSE)

RunEngine(draw) ==
    /\ args.op = "engine"
    /\ Len(result.runs) < MaxRuns
    /\ result' = [result EXCEPT !.runs =
                      Append(@, [draw |-> draw,
                                 out |-> engineOutputs(state, args.ctx, args.measurement, draw)])]
    /\ UNCHANGED <<args, state, dashVars>>

NextEngine == \E draw \in Draws : RunEngine(draw)

SpecEngine == InitEngine /\ [][NextEngine]_vars

ScoreCliffProbs == {0, 3000, 5000, 5001, 6500, 6501, 7500, 7501, 10000}
ScorePositions == {1, 5, 10, 11}
ScoreLapsSince == {15, 16}
ScoreMaxTireAges == {18, 25, 40}
ScoreWeathers == {"DRY", "INTERMEDIATE", "WET", "EXTREME_WET"}
\* Fuel for 0, 4, 4.5, 5, 9, 9.5 and 20 laps at 1.2 kg per lap.
ScoreFuelPerLap == (12 * S) \div 10
ScoreFuels == {0, 48000, 54000, 60000, 108000, 114000, 240000}

InitScore ==
    /\ args \in [op : {"analyzePitStrategy"},
                 currentPosition : ScorePositions,
                 cliffProb : ScoreCliffProbs,
                 fuel : ScoreFuels,
                 fuelPerLap : {ScoreFuelPerLap},
                 weather : ScoreWeathers,
                 lapsSincePit : ScoreLapsSince,
                 tireAge : 0 .. MaxAge,
                 maxTireAge : ScoreMaxTireAges]
    /\ result = NoCall
    /\ state = InitialFilterState
    /\ DashboardAt("SOFT", 1, FALSE)

CallScore ==
    /\ args.op = "analyzePitStrategy"
    /\ result = NoCall
    /\ result' = Returned("analyzePitStrategy", analyzePitStrategy(args))
    /\ UNCHANGED <<args, state, dashVars>>

NextScore == CallScore

SpecScore == InitScore /\ [][NextScore]_vars

(***************************************************************************)
(* Properties of analyzePitStrategy (SpecScore)                            *)
(***************************************************************************)
ScoreCalled == result.op = "analyzePitStrategy"

AgeAtLeast(percent) == 100 * args.tireAge >= percent * args.maxTireAge

\* shouldPit follows the scores, and the decision follows shouldPit.
ShouldPitFollowsScores ==
    /\ result.value.shouldPit <=>
           (result.value.tireUrgency >= 9 \/ result.value.fuelUrgency = 10)
    /\ (result.value.decision = "BOX") <=> result.value.shouldPit

ValidScoreArgs ==
    /\ args.cliffProb >= 0
    /\ args.cliffProb <= S
    /\ args.tireAge >= 0
    /\ args.fuel >= 0

AgeScore ==
    IF AgeAtLeast(95) THEN 10
    ELSE IF AgeAtLeast(85) THEN 9
    ELSE IF AgeAtLeast(75) THEN 7
    ELSE IF AgeAtLeast(60) THEN 4
    ELSE CHOOSE r \in 0 .. 5 : 2 * S * r - S <= 10 * args.cliffProb
                               /\ 10 * args.cliffProb < 2 * S * r + S

CliffScore ==
    IF args.cliffProb > 7500 THEN 10
    ELSE IF args.cliffProb > 6500 THEN 7
    ELSE IF args.cliffProb > 5000 THEN 4
    ELSE 0

PositionRule ==
    args.currentPosition > 10 /\ args.cliffProb > 5000 /\ args.lapsSincePit > 15

\* C16. The strategy urgency is 6 when position > 10 and cliffProb > 0.50
\* and lapsSincePit > 15; otherwise 5 when the weather is WET or
\* INTERMEDIATE; otherwise 1, EXTREME_WET included.
C16_StrategyUrgency ==
    ScoreCalled =>
        result.value.strategyUrgency =
            (IF PositionRule THEN 6
             ELSE IF args.weather \in {"WET", "INTERMEDIATE"} THEN 5
             ELSE 1)

\* The position rule has applied in wet weather and scored 6.
C16_Witness ==
    /\ ScoreCalled
    /\ PositionRule
    /\ args.weather = "WET"
    /\ result.value.strategyUrgency = 6

(***************************************************************************)
(* SpecStint: a TireStrategy object under sequences of updateCurrentStint  *)
(* and pitAndChangeCompound calls.  updateCurrentStint is called with the  *)
(* next lap, pitAndChangeCompound with the lap of the latest update.       *)
(***************************************************************************)
MaxCalls == 6
StintCompounds == {"MEDIUM", "INTERMEDIATE"}
StintPositions == {1, 20}

InitStint ==
    /\ args = [op |-> "TireStrategy.stints", calls |-> 0, lap |-> 0, last |-> "new"]
    /\ result = NoCall
    /\ state = InitialFilterState
    /\ \E c \in StartCompounds, p \in StartPositions : DashboardAt(c, p, FALSE)

StintUnchanged ==
    UNCHANGED <<result, state, raceState, fuelStrategy, isAgentThinking, lastDecisionLap,
                currentLap, executePitStop, pitStopCount, currentTireCompound,
                previousTireCompound, positionBeforePit, lapsSinceLastPit, pendingRequest,
                timer, lastTick, paceVarsDefined>>

StintUpdate(currentPosition) ==
    /\ args.op = "TireStrategy.stints"
    /\ args.calls < MaxCalls
    /\ tireStrategy' = updateCurrentStint(tireStrategy, args.lap + 1, currentPosition)
    /\ args' = [args EXCEPT !.calls = @ + 1, !.lap = @ + 1, !.last = "updateCurrentStint"]
    /\ StintUnchanged

StintPit(newCompound, newPosition) ==
    /\ args.op = "TireStrategy.stints"
    /\ args.calls < MaxCalls
    /\ tireStrategy' = pitAndChangeCompound(tireStrategy, args.lap, newCompound, newPosition)
    /\ args' = [args EXCEPT !.calls = @ + 1, !.last = "pitAndChangeCompound"]
    /\ StintUnchanged

NextStint ==
    \/ \E currentPosition \in StintPositions : StintUpdate(currentPosition)
    \/ \E newCompound \in StintCompounds, newPosition \in StintPositions :
           StintPit(newCompound, newPosition)

SpecStint == InitStint /\ [][NextStint]_vars

(***************************************************************************)
(* Properties of the stint bookkeeping (SpecStint)                         *)
(***************************************************************************)
\* C17. The stint history is append-only and ordered: a
\* pitAndChangeCompound call appends exactly one entry, the stint that was
\* current; no call changes or removes an archived entry; archived
\* stintNumbers are 1..n in order and the current stint has number n + 1.
C17_StintHistoryAppendOnly ==
    [][LET old == tireStrategy.stints
           new == tireStrategy'.stints
       IN  /\ Len(new) >= Len(old)
           /\ SubSeq(new, 1, Len(old)) = old
           /\ IF args'.last = "pitAndChangeCompound" /\ args'.calls # args.calls
              THEN /\ Len(new) = Len(old) + 1
                   /\ \A f \in {"stintNumber", "startLap", "tireCompound", "startPosition",
                                "maxExpectedLaps"} :
                          new[Len(new)][f] = tireStrategy.currentStint[f]
              ELSE new = old
           /\ \A i \in 1 .. Len(new) : new[i].stintNumber = i
           /\ tireStrategy'.currentStint.stintNumber = Len(new) + 1]_vars

\* Two stints have been archived, with laps run on each.
C17_Witness ==
    /\ args.op = "TireStrategy.stints"
    /\ Len(tireStrategy.stints) = 2
    /\ tireStrategy.stints[1].lapsCompleted > 0
    /\ tireStrategy.stints[2].lapsCompleted > 0
    /\ tireStrategy.stints[1].tireCompound # tireStrategy.stints[2].tireCompound
    /\ tireStrategy.currentStint.stintNumber = 3

AllStints ==
    {tireStrategy.stints[i] : i \in 1 .. Len(tireStrategy.stints)} \cup {tireStrategy.currentStint}

\* C18. Every stint held by TireStrategy, current or archived, stores an
\* age ratio ageRelativeToPeak that lies in [0,1] and equals
\* min(lapsCompleted / maxExpectedLaps, 1) for the lapsCompleted stored
\* with it.
C18_AgeRatioNeverStale ==
    args.op = "TireStrategy.stints" =>
        \A st \in AllStints :
            /\ "ageRelativeToPeak" \in DOMAIN st
            /\ st.ageRelativeToPeak \in 0 .. S
            /\ st.ageRelativeToPeak = Min(RoundDiv(st.lapsCompleted * S, st.maxExpectedLaps), S)

\* C19. In every state of the simulation the car's position is a grid
\* position in 1..20: raceState.currentPosition after the start, every
\* tick and every pit stop (where it is the newPosition returned by
\* estimatePositionLoss), and the startPosition of every stint.
C19_PositionOnGrid ==
    args.op = "dashboard" =>
        /\ raceState.currentPosition \in 1 .. 20
        /\ \A st \in AllStints : st.startPosition \in 1 .. 20

(***************************************************************************)
(* SpecLifetime: getMaxLaps queried with every key of the table, with a    *)
(* key outside it and with undefined, on a TireStrategy whose stints are   *)
(* started by the constructor and by pitAndChangeCompound with the same    *)
(* keys.                                                                   *)
(***************************************************************************)
MaxLifetimeCalls == 3
UnknownCompound == "ULTRASOFT"
LifetimeKeys == Compounds \cup {UnknownCompound, undefined}

\* new TireStrategy(driver, startingCompound): an undefined starting
\* compound is replaced by getRandomStartingCompound().
InitLifetime ==
    /\ args = [op |-> "TireStrategy.getMaxLaps", calls |-> 0, lap |-> 0]
    /\ result = NoCall
    /\ state = InitialFilterState
    /\ \E c \in Compounds \cup {UnknownCompound} : DashboardAt(c, 1, FALSE)

LifetimeQuery(compound) ==
    /\ args.op = "TireStrategy.getMaxLaps"
    /\ args.calls < MaxLifetimeCalls
    /\ result' = Returned("getMaxLaps", [compound |-> compound, maxLaps |-> getMaxLaps(compound)])
    /\ args' = [args EXCEPT !.calls = @ + 1]
    /\ UNCHANGED <<state, dashVars>>

LifetimeUpdate ==
    /\ args.op = "TireStrategy.getMaxLaps"
    /\ args.calls < MaxLifetimeCalls
    /\ tireStrategy' = updateCurrentStint(tireStrategy, args.lap + 1, 1)
    /\ args' = [args EXCEPT !.calls = @ + 1, !.lap = @ + 1]
    /\ StintUnchanged

LifetimePit(newCompound) ==
    /\ args.op = "TireStrategy.getMaxLaps"
    /\ args.calls < MaxLifetimeCalls
    /\ tireStrategy' = pitAndChangeCompound(tireStrategy, args.lap, newCompound, 1)
    /\ args' = [args EXCEPT !.calls = @ + 1]
    /\ StintUnchanged

NextLifetime ==
    \/ \E compound \in LifetimeKeys : LifetimeQuery(compound)
    \/ LifetimeUpdate
    \/ \E newCompound \in LifetimeKeys : LifetimePit(newCompound)

SpecLifetime == InitLifetime /\ [][NextLifetime]_vars

StepMultiplier(laps, maxLaps) ==
    IF 10 * laps < 3 * maxLaps THEN 10
    ELSE IF 10 * laps < 6 * maxLaps THEN 13
    ELSE IF 20 * laps < 17 * maxLaps THEN 18
    ELSE IF 20 * laps < 19 * maxLaps THEN 25
    ELSE 40

\* C21. getDegradationCurveMultiplier(laps, compound) is the step function
\* of laps / max_laps(compound) with values 1.0 (< 0.30), 1.3 (< 0.60),
\* 1.8 (< 0.85), 2.5 (< 0.95) and 4.0 otherwise, for every compound, and
\* does not decrease with laps; on every tick that measures, the
\* measurement handed to the Kalman update is the row's delta times this
\* value for the laps since the last pit and the compound fitted.  The
\* function reads no state: its table is compared on the first tick.
C21_AgeAdjustedMeasurement ==
    [][TickStep =>
         /\ lastTick'.lap = 1 =>
                \A c \in Compounds, l \in 0 .. MaxAge :
                    /\ getDegradationCurveMultiplier(l, c) = StepMultiplier(l, LifetimeTable(c))
                    /\ l > 0 => getDegradationCurveMultiplier(l - 1, c)
                                    <= getDegradationCurveMultiplier(l, c)
         /\ ~isNaN(lastTick'.adjusted) =>
                /\ lastTick'.adjusted =
                       RoundDiv(lastTick'.degradationDelta
                                  * StepMultiplier(lapsSinceLastPit',
                                                   LifetimeTable(currentTireCompound')), 10)
                /\ state'.x = KalmanOf(TickPrior, lastTick'.adjusted).x]_vars

\* A tick has measured on a SOFT tire at the end of its lifetime: the delta
\* was multiplied by 4.0.
C21_Witness ==
    /\ lastTick.outcome = "ok"
    /\ currentTireCompound = "SOFT"
    /\ lapsSinceLastPit = 18
    /\ lastTick.adjusted = 4 * lastTick.degradationDelta

(***************************************************************************)
(* Properties of getTireWearStatus (SpecTire)                              *)
(***************************************************************************)
\* Severity rank of a wear status.
Severity(status) ==
    CASE status = "FRESH" -> 1
      [] status = "NORMAL" -> 2
      [] status = "WARNING" -> 3
      [] status = "CRITICAL" -> 4
      [] status = "MANDATORY" -> 5
      [] OTHER -> 0

\* The status the design document gives laps on a tire of lifetime maxLaps.
StatusAt(laps, maxLaps) ==
    IF 2 * laps < maxLaps THEN "FRESH"
    ELSE IF 4 * laps < 3 * maxLaps THEN "NORMAL"
    ELSE IF 20 * laps < 17 * maxLaps THEN "WARNING"
    ELSE IF 20 * laps < 19 * maxLaps THEN "CRITICAL"
    ELSE "MANDATORY"

\* C22. For every compound and lap count getTireWearStatus returns FRESH,
\* NORMAL, WARNING, CRITICAL or MANDATORY by the thresholds 0.50, 0.75,
\* 0.85 and 0.95 of laps / max_laps (FRESH below 0.50, MANDATORY from
\* 0.95), and the status at a lap count is at least as severe as at the
\* lap count before.
C22_WearStatusThresholds ==
    TireCalled =>
        /\ result.value.wearStatus = StatusAt(args.lapsCompleted, LifetimeTable(args.compound))
        /\ Severity(result.value.wearStatus) >= 1
        /\ args.lapsCompleted > 0 =>
               Severity(getTireWearStatus(args.lapsCompleted - 1, args.compound))
                   <= Severity(result.value.wearStatus)

\* HARD at 38 of 40 laps is exactly at 0.95 and MANDATORY.
C22_Witness ==
    /\ TireCalled
    /\ args.compound = "HARD"
    /\ args.lapsCompleted = 38
    /\ result.value.wearStatus = "MANDATORY"

(***************************************************************************)
(* SpecCliff: the cliff probability computed for a sequence of estimates,  *)
(* as TireDegradationFilter::calculateCliffProbability and step 4 of the   *)
(* addon compute it, with the threshold and steepness that main() and the  *)
(* addon declare.  The estimates go from far below the threshold to above  *)
(* the point where 1.0 + exp(-z) is 1.0 on doubles.                        *)
(***************************************************************************)
MaxCliffCalls == 2
CliffXs == {-10000, 0, 3000, 5999, 6000, 6001, 7000, 10000, 20000, 30491, 30492, 35000}

InitCliff ==
    /\ args = [op |-> "calculateCliffProbability", calls |-> 0, xs |-> <<>>]
    /\ result = NoCall
    /\ state = InitialFilterState
    /\ DashboardAt("SOFT", 1, FALSE)

CliffCall(x) ==
    /\ args.op = "calculateCliffProbability"
    /\ args.calls < MaxCliffCalls
    /\ result' = Returned("calculateCliffProbability",
                          [x |-> x,
                           cliff_threshold |-> cliff_threshold,
                           steepness |-> steepness,
                           cliffProb |-> cliffProbability(x, cliff_threshold, steepness)])
    /\ args' = [args EXCEPT !.calls = @ + 1, !.xs = Append(@, x)]
    /\ UNCHANGED <<state, dashVars>>

NextCliff == \E x \in CliffXs : CliffCall(x)

SpecCliff == InitCliff /\ [][NextCliff]_vars

(***************************************************************************)
(* Properties of the cliff probability (SpecCliff)                         *)
(***************************************************************************)
CliffCalled == result.op = "calculateCliffProbability"

\* The parts of the statement that do not depend on the size of x: the
\* probability is 0.5 exactly at the threshold, above 0.5 exactly above
\* it, and every call uses threshold 0.60 and steepness 15.0.
CliffAroundThreshold(r) ==
    /\ r.cliff_threshold = (60 * S) \div 100
    /\ r.steepness = 15
    /\ r.cliffProb > 0
    /\ (r.cliffProb = S \div 2) <=> (r.x = r.cliff_threshold)
    /\ (r.cliffProb > S \div 2) <=> (r.x > r.cliff_threshold)

\* p is below q, or the two are the same value next to 0 or next to 1,
\* where one unit of the model holds many distinct doubles.
BelowOrUnresolved(p, q) == p < q \/ (p = q /\ p \in {1, S - 1})

FilterOfMain == [x |-> 0, P |-> S, Q |-> S \div 100, R |-> S \div 2, wear_rate |-> (5 * S) \div 100]

\* noisy_telemetry = {0.04, 0.12, 0.09, 0.25, 0.18, 0.35, 0.30, 0.55, 0.48, 0.70}
TelemetryOfMain == <<400, 1200, 900, 2500, 1800, 3500, 3000, 5500, 4800, 7000>>

Reversed(seq) == [i \in 1 .. Len(seq) |-> seq[Len(seq) + 1 - i]]
Constantly(v) == [i \in 1 .. Len(TelemetryOfMain) |-> v]

ScenarioTelemetries ==
    {TelemetryOfMain, Reversed(TelemetryOfMain), Constantly(400), Constantly(7000),
     Constantly(20000)}
ScenarioFilters == {FilterOfMain, InitialFilterState}

\* K = P_pred / (P_pred + R), the gain of an update from covariance P.
kalmanGain(P, Q, R) == RoundDiv((P + Q) * S, P + Q + R)

InitScenario ==
    /\ args \in [op : {"TireDegradationFilter"}, noisy_telemetry : ScenarioTelemetries,
                 filter : ScenarioFilters, i : {0}]
    /\ result = NoCall
    /\ state = args.filter
    /\ DashboardAt("SOFT", 1, FALSE)

\* One pass of the loop of main(): filter.update(noisy_telemetry[i]), then
\* filter.calculateCliffProbability(cliff_threshold, steepness).
FilterUpdate ==
    /\ args.op = "TireDegradationFilter"
    /\ args.i < Len(args.noisy_telemetry)
    /\ LET r == UpdateState(state.x, state.P, state.Q, state.R, state.wear_rate,
                            args.noisy_telemetry[args.i + 1])
       IN  /\ result' = Returned("update",
                                 [K |-> kalmanGain(state.P, state.Q, state.R),
                                  smoothed_state |-> r.x,
                                  cliff_prob |-> r.cliffProb])
           /\ state' = [state EXCEPT !.x = r.x, !.P = r.P]
    /\ args' = [args EXCEPT !.i = @ + 1]
    /\ UNCHANGED dashVars

NextScenario == FilterUpdate

SpecScenario == InitScenario /\ [][NextScenario]_vars

(***************************************************************************)
(* Properties of the filter scenarios (SpecScenario)                       *)
(***************************************************************************)
\* The filter of main() has been fed the first n measurements of main().
MainFed(n) ==
    /\ args.op = "TireDegradationFilter"
    /\ args.filter = FilterOfMain
    /\ args.noisy_telemetry = TelemetryOfMain
    /\ args.i = n

\* C24. From (x = 0.0, P = 1.0) with Q = 0.01, R = 0.5, wearRate = 0.05,
\* after the ten measurements 0.04, 0.12, 0.09, 0.25, 0.18, 0.35, 0.30,
\* 0.55, 0.48, 0.70 the smoothed estimate is greater than 0.55 and the
\* cliff probability is greater than 0.5.
C24_ScenarioBConverges ==
    MainFed(10) =>
        /\ result.value.smoothed_state > (55 * S) \div 100
        /\ result.value.cliff_prob > S \div 2

\* C25 as stated: the first update, with measurement 0.04, uses a gain of
\* 0.67 to two decimals and gives the estimate 0.0417 to four decimals,
\* with a cliff probability below 0.5.
C25_ScenarioAEstimate0417 ==
    MainFed(1) =>
        /\ MathRound(result.value.K * 100, S) = 67
        /\ MathRound(result.value.smoothed_state * 10000, S) = 417
        /\ result.value.cliff_prob < S \div 2

\* C25. The first update, with measurement 0.04, uses a gain of 0.67 to
\* two decimals and gives the estimate 0.0433 to four decimals, with a
\* cliff probability below 0.5.
C25_ScenarioAEstimate0433 ==
    MainFed(1) =>
        /\ MathRound(result.value.K * 100, S) = 67
        /\ MathRound(result.value.smoothed_state * 10000, S) = 433
        /\ result.value.cliff_prob < S \div 2

C25_Witness ==
    /\ MainFed(1)
    /\ result.op = "update"
    /\ state.x = result.value.smoothed_state
    /\ state.P < S

(***************************************************************************)
(* Properties of the advisory callbacks and the pit block (Spec)           *)
(***************************************************************************)
\* A callback of the advisory request has run: the request in flight is
\* settled by a step that is not a tick.
AdvisoryStep ==
    /\ args.op = "dashboard"
    /\ ~TickStep
    /\ pendingRequest # NoRequest
    /\ pendingRequest' = NoRequest

\* C26. A pit stop that is not mandatory is scheduled only by an advisory
\* answer of BOX to a request whose analyzePitStrategy urgency is greater
\* than 3: an answer to a request with urgency 3 or less never turns
\* executePitStop on.
C26_AdvisoryPitNeedsUrgencyAboveThree ==
    [][(AdvisoryStep /\ ~executePitStop /\ executePitStop')
          => pendingRequest.totalUrgency > 3]_vars

(***************************************************************************)
(* SpecPitLoss: estimatePositionLoss applied to every grid position, every *)
(* lap of a race of the default length and draws of Math.random() at both  *)
(* ends and in the middle of [0, 1), the largest double below 1 included.  *)
(***************************************************************************)
\* estimatePositionLoss(currentPosition, lap, raceLength = 300)
defaultRaceLength == 300
LossVariances == {-5000, -1, 0, 4999, S \div 2}

InitPitLoss ==
    /\ args \in [op : {"estimatePositionLoss"}, currentPosition : 1 .. 20,
                 lap : 0 .. defaultRaceLength, variance : LossVariances]
    /\ result = NoCall
    /\ state = InitialFilterState
    /\ DashboardAt("SOFT", 1, FALSE)

CallPitLoss ==
    /\ args.op = "estimatePositionLoss"
    /\ result = NoCall
    /\ result' = Returned("estimatePositionLoss",
                          estimatePositionLoss(args.currentPosition, args.lap,
                                               defaultRaceLength, args.variance))
    /\ UNCHANGED <<args, state, dashVars>>

NextPitLoss == CallPitLoss

SpecPitLoss == InitPitLoss /\ [][NextPitLoss]_vars

\* C27. estimatePositionLoss costs exactly one position for every grid
\* position 1..20, every lap 0..raceLength and every variance draw:
\* positionsLost = 1 and newPosition = currentPosition + 1.
C27_PitCostsOnePosition ==
    result.op = "estimatePositionLoss" =>
        /\ result.value.positionsLost = 1
        /\ result.value.newPosition = args.currentPosition + 1

\* C28. lapsSinceLastPit is 0 at the end of every tick on which a pit stop
\* executes and, at the end of every other tick, one more than at the end
\* of the tick before (skipped and failing ticks included); no other step
\* changes it, so it counts the ticks since the latest pit stop, or since
\* the start.
C28_LapsSinceLastPitCountsTicks ==
    [][args.op = "dashboard" =>
          lapsSinceLastPit' = IF ~TickStep THEN lapsSinceLastPit
                              ELSE IF lastTick'.pitted THEN 0
                              ELSE lapsSinceLastPit + 1]_vars

\* Three ticks have run since a pit stop that followed at least four.
C28_Witness ==
    /\ args.op = "dashboard"
    /\ pitStopCount = 1
    /\ lapsSinceLastPit = 3
    /\ currentLap > 7
    /\ ~lastTick.pitted

(***************************************************************************)
(* SpecWeather: analyzeWeatherImpact applied to drawn readings.  The       *)
(* rainfalls are the thresholds 0.1, 0.5 and 2, their neighbours, and the  *)
(* values of the documented tests (0, 0.3, 1.5, 3.5).                      *)
(***************************************************************************)
TrackTemps == {10, 20, 40, 70}
AirTemps == {15, 40}
Humidities == {40, 75, 100}
WeatherRainfalls == {0, 999, 1000, 1001, 3000, 5000, 5001, 15000, 20000, 20001, 35000}

InitWeather ==
    /\ args \in [op : {"analyzeWeatherImpact"}, trackTemp : TrackTemps, airTemp : AirTemps,
                 humidity : Humidities, rainfall : WeatherRainfalls]
    /\ result = NoCall
    /\ state = InitialFilterState
    /\ DashboardAt("SOFT", 1, FALSE)

CallWeather ==
    /\ args.op = "analyzeWeatherImpact"
    /\ result = NoCall
    /\ result' = Returned("analyzeWeatherImpact",
                          analyzeWeatherImpact(args.trackTemp, args.airTemp, args.humidity,
                                               args.rainfall))
    /\ UNCHANGED <<args, state, dashVars>>

NextWeather == CallWeather

SpecWeather == InitWeather /\ [][NextWeather]_vars

\* C29. analyzeWeatherImpact classifies by rainfall alone: above 2 it is
\* EXTREME_WET, above 0.5 up to 2 WET, above 0.1 up to 0.5 INTERMEDIATE and
\* otherwise DRY, for every humidity, track temperature and air temperature.
C29_ConditionFromRainfallAlone ==
    result.op = "analyzeWeatherImpact" =>
        result.value.condition =
            CASE 10 * args.rainfall > 20 * S -> "EXTREME_WET"
              [] 10 * args.rainfall > 5 * S /\ 10 * args.rainfall <= 20 * S -> "WET"
              [] 10 * args.rainfall > S /\ 10 * args.rainfall <= 5 * S -> "INTERMEDIATE"
              [] OTHER -> "DRY"

\* High humidity on a cool track without rain is DRY.
C29_Witness ==
    /\ result.op = "analyzeWeatherImpact"
    /\ args.humidity = 75
    /\ args.trackTemp = 20
    /\ args.rainfall = 0
    /\ result.value.condition = "DRY"

\* The compounds that may be fitted in a weather condition.
AllowedCompounds(condition) ==
    CASE condition = "DRY" -> {"MEDIUM", "HARD", "SOFT"}
      [] condition = "INTERMEDIATE" -> {"INTERMEDIATE"}
      [] condition = "WET" -> {"WET", "INTERMEDIATE"}
      [] condition = "EXTREME_WET" -> {"EXTREME_WET"}
      [] OTHER -> {}

\* The weather of a rainfall reading, by the documented thresholds.
ConditionOf(rainfall) ==
    IF 10 * rainfall > 20 * S THEN "EXTREME_WET"
    ELSE IF 10 * rainfall > 5 * S THEN "WET"
    ELSE IF 10 * rainfall > S THEN "INTERMEDIATE"
    ELSE "DRY"

\* C30. At every executed pit stop the compound fitted is a defined member
\* of the set allowed for the weather of that tick (DRY: MEDIUM, HARD or
\* SOFT; INTERMEDIATE: INTERMEDIATE; WET: WET or INTERMEDIATE; EXTREME_WET:
\* EXTREME_WET) and differs from the compound removed.
C30_FittedCompoundAllowed ==
    [][(args.op = "dashboard" /\ TickStep /\ lastTick'.pitted) =>
          /\ currentTireCompound' # undefined
          /\ currentTireCompound' \in AllowedCompounds(ConditionOf(raceState'.rainfall))
          /\ currentTireCompound' # currentTireCompound
          /\ tireStrategy'.currentStint.tireCompound = currentTireCompound']_vars

(***************************************************************************)
(* Properties of the advisory request in flight (Spec)                     *)
(***************************************************************************)
\* handleAiDecision has sent a request: a new promise is in flight.
RequestSent == pendingRequest' # NoRequest /\ pendingRequest' # pendingRequest

\* C31. At most one advisory request is outstanding at any time: a request
\* is sent only by a tick, only while isAgentThinking is false and no
\* request is in flight; isAgentThinking is true exactly while a request
\* is in flight; and every callback of the request (response, parse
\* failure, API error) leaves isAgentThinking false.
C31_SingleRequestInFlight ==
    /\ (isAgentThinking <=> pendingRequest # NoRequest)
    /\ [][/\ isAgentThinking' <=> pendingRequest' # NoRequest
          /\ RequestSent =>
                 /\ TickStep
                 /\ ~isAgentThinking
                 /\ pendingRequest = NoRequest
                 /\ pendingRequest'.lap = lastTick'.lap
          /\ AdvisoryStep => ~isAgentThinking'
          /\ (isAgentThinking /\ ~isAgentThinking') => AdvisoryStep]_vars

\* A second request is in flight after the first one was answered, and
\* ticks have run while it is outstanding.
C31_Witness ==
    /\ isAgentThinking
    /\ pendingRequest.lap = 8
    /\ lastTick.lap = 10
    /\ lastTick.outcome = "ok"

PitPerformed ==
    /\ lastTick'.pitted
    /\ pitStopCount' = pitStopCount + 1
    /\ Len(tireStrategy'.stints) = Len(tireStrategy.stints) + 1
    /\ currentTireCompound' \in Compounds \ {currentTireCompound}
    /\ previousTireCompound' = currentTireCompound
    /\ lapsSinceLastPit' = 0
    /\ TickPrior = [x |-> InitialFilterState.x, P |-> InitialFilterState.P]

NoPitPerformed ==
    /\ ~lastTick'.pitted
    /\ pitStopCount' = pitStopCount
    /\ tireStrategy'.stints = tireStrategy.stints
    /\ currentTireCompound' = currentTireCompound
    /\ previousTireCompound' = previousTireCompound

\* C33. Every scheduled pit stop executes exactly once, on the next tick:
\* a tick that begins with executePitStop true archives the stint, fits a
\* different compound, resets the filter and the lap counter, adds one to
\* pitStopCount and ends with executePitStop false; a tick that begins
\* with executePitStop false performs no pit stop; and no step other than
\* a tick touches the pit counters.
C33_ScheduledPitExecutesOnce ==
    [][IF TickStep
       THEN IF executePitStop THEN PitPerformed /\ ~executePitStop' ELSE NoPitPerformed
       ELSE /\ pitStopCount' = pitStopCount
            /\ tireStrategy' = tireStrategy
            /\ currentTireCompound' = currentTireCompound]_vars

(***************************************************************************)
(* Properties of the writers of executePitStop (Spec)                      *)
(***************************************************************************)
\* executePitStop has been turned on.
PitScheduled == ~executePitStop /\ executePitStop'

\* The mandatory branch of handleAiDecision ran on this tick: the tick got
\* as far as handleAiDecision with no request in flight, and the tire age
\* it read has reached the compound's lifetime.
MandatoryBranchTaken ==
    /\ TickStep
    /\ lastTick'.outcome = "ok"
    /\ ~isAgentThinking
    /\ lapsSinceLastPit' >= LifetimeTable(currentTireCompound')

\* The request in flight was answered BOX with a confidence that the
\* response handler acts on.
BoxAnswerHandled ==
    \E confidence \in Confidences \ {NaN} :
        /\ AdvisoryResponse("BOX", confidence)
        /\ \/ confidence >= 6500
           \/ confidence < 6500 /\ pendingRequest.totalUrgency > 5

C35_CountersAgreeWithStints ==
    args.op = "dashboard" =>
        /\ pitStopCount = Len(tireStrategy.stints)
        /\ tireStrategy.currentStint.stintNumber = pitStopCount + 1
        /\ \A i \in 1 .. Len(tireStrategy.stints) : tireStrategy.stints[i].stintNumber = i
        /\ currentTireCompound = tireStrategy.currentStint.tireCompound

\* Two pit stops have executed and the third stint is under way.
C35_Witness ==
    /\ args.op = "dashboard"
    /\ pitStopCount = 2
    /\ Len(tireStrategy.stints) = 2
    /\ tireStrategy.currentStint.stintNumber = 3
    /\ currentTireCompound \in Compounds
    /\ lapsSinceLastPit >= 1
    /\ lastTick.outcome = "ok"

\* The lap count updateCurrentStint reported for the stint that the pit
\* block of this tick archives: the call of line 756 precedes the block.
LastReportedLaps ==
    updateCurrentStint(tireStrategy, lastTick'.lap, raceState.currentPosition)
        .currentStint.lapsCompleted

\* C36. With lap numbers 1, 2, 3, ... the two trackers of tire age agree
\* at the end of every tick: lapsSinceLastPit equals the current stint's
\* lapsCompleted, and the lapsCompleted archived for a stint by a pit stop
\* equals the value updateCurrentStint last reported for that stint.
C36_TireAgeTrackersAgree ==
    [][TickStep =>
          /\ lapsSinceLastPit' = tireStrategy'.currentStint.lapsCompleted
          /\ lastTick'.pitted =>
                 tireStrategy'.stints[Len(tireStrategy'.stints)].lapsCompleted
                     = LastReportedLaps]_vars

(***************************************************************************)
(* SpecAnalyzer: one WeatherAnalyzer object that receives a sequence of    *)
(* analyzeWeatherImpact calls.  The object (the receiver of the calls) is  *)
(* kept in args.weatherFactors, the calls made so far and what they        *)
(* returned in args.history.                                               *)
(***************************************************************************)
\* this.weatherFactors as the constructor builds it; degradationMultiplier
\* is in tenths.  DRY and INTERMEDIATE have no aquaplaning property.
WeatherFactorsNew ==
    [c \in {"DRY", "WET", "INTERMEDIATE", "EXTREME_WET"} |->
        CASE c = "DRY" -> [degradationMultiplier |-> 10, gripLevel |-> "HIGH",
                           blisteringRisk |-> FALSE]
          [] c = "WET" -> [degradationMultiplier |-> 15, gripLevel |-> "MEDIUM",
                           blisteringRisk |-> FALSE, aquaplaning |-> TRUE]
          [] c = "INTERMEDIATE" -> [degradationMultiplier |-> 12, gripLevel |-> "MEDIUM-HIGH",
                                    blisteringRisk |-> FALSE]
          [] c = "EXTREME_WET" -> [degradationMultiplier |-> 20, gripLevel |-> "LOW",
                                   blisteringRisk |-> FALSE, aquaplaning |-> TRUE]]

getTireRecommendation(condition) ==
    CASE condition = "DRY" -> "SOFT/MEDIUM"
      [] condition = "INTERMEDIATE" -> "INTERMEDIATE"
      [] condition = "WET" -> "WET"
      [] condition = "EXTREME_WET" -> "EXTREME_WET"

\* One call of analyzeWeatherImpact on an analyzer whose table is
\* weatherFactors: the object returned and the table after the call.
\* factors is a reference to the table's entry, so factors.blisteringRisk =
\* true writes into the table.  toFixed of a whole number of degrees or
\* percent appends ".0": the formatted fields are kept in tenths, the
\* rainfall (toFixed(2)) in hundredths.
analyzeWeatherImpactCall(weatherFactors, trackTemp, airTemp, humidity, rainfall) ==
    LET impact == analyzeWeatherImpact(trackTemp, airTemp, humidity, rainfall)
        condition == impact.condition
        table == IF trackTemp > 60 /\ condition = "DRY"
                 THEN [weatherFactors EXCEPT ![condition].blisteringRisk = TRUE]
                 ELSE weatherFactors
        factors == table[condition]
    IN  [value |-> [condition |-> condition,
                    trackTemp |-> 10 * trackTemp,
                    airTemp |-> 10 * airTemp,
                    humidity |-> 10 * humidity,
                    rainfall |-> RoundDiv(rainfall * 100, S),
                    degradationMultiplier |-> factors.degradationMultiplier,
                    gripLevel |-> factors.gripLevel,
                    blisteringRisk |-> factors.blisteringRisk,
                    aquaplaning |-> IF "aquaplaning" \in DOMAIN factors
                                    THEN factors.aquaplaning ELSE FALSE,
                    riskFactors |-> impact.riskFactors,
                    recommendedTireCompound |-> getTireRecommendation(condition)],
         weatherFactors |-> table]

MaxAnalyzerCalls == 3
AnalyzerTrackTemps == {40, 61, 70}
AnalyzerAirTemps == {25}
AnalyzerHumidities == {50, 80}
AnalyzerRainfalls == {0, 3000, 10000}

InitAnalyzer ==
    /\ args = [op |-> "analyzeWeatherImpact", weatherFactors |-> WeatherFactorsNew,
               history |-> <<>>]
    /\ result = NoCall
    /\ state = InitialFilterState
    /\ DashboardAt("SOFT", 1, FALSE)

CallAnalyzer(trackTemp, airTemp, humidity, rainfall) ==
    /\ args.op = "analyzeWeatherImpact"
    /\ "history" \in DOMAIN args
    /\ Len(args.history) < MaxAnalyzerCalls
    /\ \E call \in {analyzeWeatherImpactCall(args.weatherFactors, trackTemp, airTemp,
                                              humidity, rainfall)} :
           /\ result' = Returned("analyzeWeatherImpact", call.value)
           /\ args' = [args EXCEPT !.weatherFactors = call.weatherFactors,
                                   !.history = Append(@, [input |-> <<trackTemp, airTemp,
                                                                      humidity, rainfall>>,
                                                          value |-> call.value])]
    /\ UNCHANGED <<state, dashVars>>

NextAnalyzer ==
    \E trackTemp \in AnalyzerTrackTemps, airTemp \in AnalyzerAirTemps,
       humidity \in AnalyzerHumidities, rainfall \in AnalyzerRainfalls :
        CallAnalyzer(trackTemp, airTemp, humidity, rainfall)

SpecAnalyzer == InitAnalyzer /\ [][NextAnalyzer]_vars

\* C37. analyzeWeatherImpact is history-independent: two calls of the same
\* analyzer with equal (trackTemp, airTemp, humidity, rainfall) return equal
\* objects whatever calls were made in between; every call reports
\* blisteringRisk exactly when trackTemp > 60 and the condition is DRY; and
\* the weatherFactors table stays as the constructor built it.
C37_WeatherImpactHistoryIndependent ==
    args.op = "analyzeWeatherImpact" =>
        /\ \A i, j \in 1 .. Len(args.history) :
               args.history[i].input = args.history[j].input
                   => args.history[i].value = args.history[j].value
        /\ \A i \in 1 .. Len(args.history) :
               args.history[i].value.blisteringRisk
                   <=> (/\ args.history[i].input[1] > 60
                        /\ ConditionOf(args.history[i].input[4]) = "DRY")
        /\ args.weatherFactors = WeatherFactorsNew

(***************************************************************************)
(* Monotonicity of determineOptimalPitWindow (SpecLadder)                  *)
(***************************************************************************)
\* STAY_OUT < CONSIDER_PIT < PIT_SOON < PIT_IMMEDIATELY
LadderRank(recommendation) ==
    CASE recommendation = "STAY_OUT" -> 0
      [] recommendation = "CONSIDER_PIT" -> 1
      [] recommendation = "PIT_SOON" -> 2
      [] recommendation = "PIT_IMMEDIATELY" -> 3

\* The verdict w is at least as severe as the verdict v returned by the
\* call, and does not allow more laps.
NoLessSevere(v, w) ==
    /\ LadderRank(w.recommendation) >= LadderRank(v.recommendation)
    /\ w.lapsToGo <= v.lapsToGo

\* C38. The decision ladder is monotone: with the other arguments as in
\* the call, a larger cliffProb, a larger tireAge or a larger
\* lapsSinceLastPit never gives a less severe recommendation
\* (STAY_OUT < CONSIDER_PIT < PIT_SOON < PIT_IMMEDIATELY) and never a
\* larger lapsToGo than the call returned.
C38_LadderMonotone ==
    LadderCalled =>
        /\ \A cliffProb \in {p \in CliffProbs : p >= args.currentCliffProb} :
               NoLessSevere(result.value,
                            determineOptimalPitWindow(0, cliffProb, args.lapsSinceLastPit,
                                                      args.tireAge, args.maxTireAge))
        /\ \A tireAge \in args.tireAge .. MaxAge :
               NoLessSevere(result.value,
                            determineOptimalPitWindow(0, args.currentCliffProb,
                                                      args.lapsSinceLastPit, tireAge,
                                                      args.maxTireAge))
        /\ \A lapsSince \in {l \in LapsSince : l >= args.lapsSinceLastPit} :
               NoLessSevere(result.value,
                            determineOptimalPitWindow(0, args.currentCliffProb, lapsSince,
                                                      args.tireAge, args.maxTireAge))

\* A call that returned STAY_OUT and from which each of the three
\* arguments, raised alone, leads to a more severe verdict.
C38_Witness ==
    /\ LadderCalled
    /\ result.value.recommendation = "STAY_OUT"
    /\ args.currentCliffProb = 5001
    /\ args.lapsSinceLastPit = 20
    /\ args.tireAge = 10
    /\ args.maxTireAge = 40
    /\ determineOptimalPitWindow(0, 6500, 20, 10, 40).recommendation = "PIT_SOON"
    /\ determineOptimalPitWindow(0, 5001, 21, 10, 40).recommendation = "CONSIDER_PIT"
    /\ determineOptimalPitWindow(0, 5001, 20, 38, 40).recommendation = "PIT_IMMEDIATELY"

(***************************************************************************)
(* Termination of the dashboard loop (SpecLive)                            *)
(***************************************************************************)
\* C39. The simulation terminates: every tick processes the next row of
\* the stream in file order and adds one to currentLap (skipped ticks and
\* pit ticks included) without an uncaught exception, the interval is
\* cleared only when all MaxRows rows have been processed, and it is
\* cleared eventually.
C39_SimulationTerminates ==
    /\ [][/\ TickStep => /\ lastTick'.lap = currentLap + 1
                         /\ currentLap' = currentLap + 1
                         /\ timer' = "running"
          /\ (timer = "running" /\ timer' = "cleared") => currentLap = MaxRows]_vars
    /\ <>(timer = "cleared")

(***************************************************************************)
(* SpecEquivalence: the addon, called the way the server calls it (x and P *)
(* of the result fed back into the JS state object), next to a             *)
(* TireDegradationFilter constructed with the same five numbers and fed    *)
(* the same measurements.  The JS object is the variable state, the C++    *)
(* object is args.filter.                                                  *)
(***************************************************************************)
\* The update with the a posteriori covariance taken from P instead of
\* P_pred.
updateMutant(filter, noisy_measurement) ==
    LET x_pred == filter.x + filter.wear_rate
        P_pred == filter.P + filter.Q
    IN  IF isNaN(filter.x) \/ isNaN(filter.P) \/ isNaN(noisy_measurement)
           \/ P_pred + filter.R = 0
        THEN [filter EXCEPT !.x = NaN, !.P = NaN]
        ELSE LET K == RoundDiv(P_pred * S, P_pred + filter.R)
             IN  [filter EXCEPT !.x = x_pred + RoundDiv(K * (noisy_measurement - x_pred), S),
                                !.P = RoundDiv((S - K) * filter.P, S)]
\* TireDegradationFilter::update(noisy_measurement): the object after the
\* call (the value returned is its x).  0.0 / 0.0 is NaN and propagates.
update(filter, noisy_measurement) ==
    LET x_pred == filter.x + filter.wear_rate
        P_pred == filter.P + filter.Q
    IN  IF isNaN(filter.x) \/ isNaN(filter.P) \/ isNaN(noisy_measurement)
           \/ P_pred + filter.R = 0
        THEN [filter EXCEPT !.x = NaN, !.P = NaN]
        ELSE LET K == RoundDiv(P_pred * S, P_pred + filter.R)
             IN  [filter EXCEPT !.x = x_pred + RoundDiv(K * (noisy_measurement - x_pred), S),
                                !.P = RoundDiv((S - K) * P_pred, S)]

\* TireDegradationFilter::calculateCliffProbability(cliff_threshold, steepness)
calculateCliffProbability(filter, threshold, steep) ==
    cliffProbability(filter.x, threshold, steep)

MaxFeeds == 3
EquivalenceFilters ==
    [x : {0, 5000}, P : {0, 10000}, Q : {0, 20}, R : {0, 15000}, wear_rate : {450, 500}]
EquivalenceMeasurements == {-2500, 0, 2500, 10000, 40000}

InitEquivalence ==
    /\ args \in [op : {"equivalence"}, filter : EquivalenceFilters, fed : {0}]
    /\ state = args.filter
    /\ result = NoCall
    /\ DashboardAt("SOFT", 1, FALSE)

\* One measurement given to both: kalmanMath.updateState with the feedback
\* state.x = result.x, state.P = result.P, and filter.update followed by
\* filter.calculateCliffProbability(0.60, 15.0).
FeedBoth(measurement) ==
    /\ args.op = "equivalence"
    /\ args.fed < MaxFeeds
    /\ \E r \in {UpdateState(state.x, state.P, state.Q, state.R, state.wear_rate, measurement)},
          f \in {update(args.filter, measurement)} :
           /\ state' = storeResult(state, r)
           /\ args' = [args EXCEPT !.filter = f, !.fed = @ + 1]
           /\ result' = Returned("equivalence",
                                 [addon |-> r,
                                  smoothed_state |-> f.x,
                                  cliff_prob |-> calculateCliffProbability(
                                                     f, (60 * S) \div 100, 15)])
    /\ UNCHANGED dashVars

NextEquivalence == \E measurement \in EquivalenceMeasurements : FeedBoth(measurement)

SpecEquivalence == InitEquivalence /\ [][NextEquivalence]_vars

\* C40. The two filter implementations are equivalent: started from the
\* same (x, P) with the same Q, R and wear rate and fed the same
\* measurements, the addon with state feedback and the filter object hold
\* the same x and P after every step, the addon's x is the value update
\* returned, and the addon's cliffProb equals
\* calculateCliffProbability(0.60, 15.0); neither changes Q, R or the wear
\* rate.
C40_FilterImplementationsEquivalent ==
    args.op = "equivalence" =>
        /\ state = args.filter
        /\ result.op = "equivalence" =>
               /\ result.value.addon.x = result.value.smoothed_state
               /\ result.value.addon.x = state.x
               /\ result.value.addon.P = args.filter.P
               /\ result.value.addon.cliffProb = result.value.cliff_prob

\* Three measurements in, both estimates have moved off the prior and the
\* probability is strictly between 0 and 1.
C40_Witness ==
    /\ args.op = "equivalence"
    /\ args.fed = 3
    /\ ~isNaN(state.x)
    /\ state.x > 5000
    /\ state.P > 0
    /\ state.P < 10000
    /\ result.value.cliff_prob > 1
    /\ result.value.cliff_prob < S - 1

====
